---- MODULE Spec2Model ----
(***************************************************************************)
(* State-machine model of the NVDAAL GSP controller (NVDAALGsp.cpp): the    *)
(* controller life cycle (constructor, init, free), firmware hand-off,      *)
(* the boot orchestrator bootEx with its FWSEC-FRTS strategies, the         *)
(* INIT_DONE handshake and the RPC send path.                               *)
(*                                                                          *)
(* The driver is single-threaded: one public operation runs at a time.      *)
(* pc = "idle" between operations; a long operation (bootEx,                *)
(* executeFwsecFrts) advances through one action per step of its code.      *)
(* Every operation ends in pc = "done" with its result in ret; the action   *)
(* return hands control back to the caller.  Values the hardware returns    *)
(* on a register read are chosen inside the action that performs the read.  *)
(***************************************************************************)
EXTENDS Integers, Sequences, FiniteSets, TLC

\* ------------------------------------------------------------------ bounds
\* Most frames a run enqueues on the command queue (caps rpcSeqNum).
MaxRpc == 1
\* Most status messages the GSP delivers during one waitRpcResponse.
MaxMsgs == 2

\* --------------------------------------------------------------- constants
QUEUE_SIZE == 262144
QueueElementHeader == 16
RpcHeaderSize == 24

VARIABLES
    initialized,    \* NVDAALGsp::initialized
    gspReady,       \* NVDAALGsp::gspReady
    mmioBase,       \* NVDAALGsp::mmioBase is non-null
    mem,            \* which IOBufferMemoryDescriptor members are non-null
    booterSize,     \* booterLoadMem->getLength() class: "none", "small" (< 256), "ok"
    vbios,          \* content of the buffer behind fwsecMem (a VBIOS image class)
    fwsecInfo,      \* NVDAALGsp::fwsecInfo (FalconUcodeInfo)
    wprMeta,        \* content of the WPR metadata page: "zero" or "WPR2"
    rpcSeqNum,      \* NVDAALGsp::rpcSeqNum
    cmdQueueHead,   \* NVDAALGsp::cmdQueueHead
    cmdQueueTail,   \* NVDAALGsp::cmdQueueTail
    ring,           \* a queue buffer's frames and its reader's pointers (RingSpec)
    vaSpace,        \* NVDAALVASpace: currentVaOffset and the mappings handed out
    lastHandle,     \* NVDAALGsp::lastHandle
    handles,        \* the values nextHandle has returned, in order
    channel,        \* NVDAALChannel: handles, GPFIFO ring, UserD, put, lock
    workers,        \* the threads inside NVDAALChannel::submit
    radix3,         \* the buffer behind radix3Mem: its place, size and 64-bit words
    dma,            \* every buffer allocDmaBuffer has handed out, and who points at it
    hw,             \* GPU registers the driver reads back: wpr2En and wpr2HiRest
                    \* are bit 31 and bits 30:0 of WPR2_ADDR_HI, wpr2Lo is WPR2_ADDR_LO
    pc,             \* position of the running operation
    call,           \* the running operation and what it has observed so far
    stages,         \* boot stages entered by the running bootEx call, in order
    strategies,     \* FWSEC strategies started by the running executeFwsecFrts
    regLog,         \* register writes of the running operation, in order
    ret,            \* result of the operation that has just finished
    bootedSinceInit \* a bootEx call has returned 0 since the last successful init

vars == <<initialized, gspReady, mmioBase, mem, booterSize, vbios, fwsecInfo,
          wprMeta, rpcSeqNum, cmdQueueHead, cmdQueueTail, ring, vaSpace, lastHandle,
          handles, channel, workers, radix3, dma, hw, pc, call, stages, strategies, regLog, ret,
          bootedSinceInit>>

gspVars == <<initialized, gspReady, mmioBase, mem, dma, booterSize, vbios, fwsecInfo,
             wprMeta, bootedSinceInit>>
queuePtrs == <<rpcSeqNum, cmdQueueHead, cmdQueueTail>>
\* The objects built on top of the controller.
chanVars == <<lastHandle, handles, channel, workers>>
extVars == <<vaSpace, chanVars, radix3>>
queueVars == <<queuePtrs, ring, extVars>>
traceVars == <<stages, strategies, regLog>>
\* What no step of bootEx or executeFwsecFrts assigns.
bootFrame == <<initialized, gspReady, mmioBase, booterSize, rpcSeqNum, cmdQueueHead,
               cmdQueueTail, ring, extVars>>

\* ------------------------------------------------------------------ values
MembersAsAllocated == <<"cmdQueueMem", "statQueueMem", "wprMetaMem", "fwsecMem",
                        "booterLoadMem", "bootloaderMem", "firmwareMem", "radix3Mem">>

\* The IOBufferMemoryDescriptor members of the controller, in the order free()
\* hands them to freeDmaBuffer.
Members == <<"radix3Mem", "wprMetaMem", "fwsecMem", "booterLoadMem", "bootloaderMem",
             "firmwareMem", "statQueueMem", "cmdQueueMem">>

MemberSet == {Members[k] : k \in 1..Len(Members)}

Buffers == MemberSet

NoBuffers == [b \in Buffers |-> FALSE]

\* FalconUcodeInfo after the constructor's memset.
NoFwsecInfo == [valid |-> FALSE, storedSize |-> 0, rangesOk |-> TRUE]

RetNone == [kind |-> "none", b |-> FALSE, i |-> 0]
RetBool(v) == [kind |-> "bool", b |-> v, i |-> 0]

NoCall == [op |-> "none", caller |-> "none", failed |-> {}, skipped |-> {},
           wpr2AtEntry |-> FALSE, wpr2Seen |-> FALSE, parsed |-> FALSE,
           activeSeen |-> FALSE, fwLogStart |-> 0, fwLogEnd |-> 0, fwDone |-> FALSE, fwRet |-> FALSE,
           fn |-> "none", readyAtCall |-> FALSE, seen |-> {}, freed |-> FALSE,
           fwNoVbios |-> FALSE, polls |-> 0, retcodeErr |-> FALSE,
           fwSize |-> 0, offset |-> 0, blockPolls |-> <<>>,
           size |-> 0, gspStatus |-> 0, crcBad |-> FALSE,
           va |-> [hi |-> 0, lo |-> 0], alignment |-> [hi |-> 0, lo |-> 0],
           step |-> 0, h |-> 0, acquired |-> <<>>, released |-> <<>>,
           img |-> <<>>, table |-> 0, scanned |-> FALSE]

NewCall(op) == [NoCall EXCEPT !.op = op, !.readyAtCall = gspReady]

\* A queue buffer after init's memset, its reader at offset 0.  mem maps the
\* offsets that hold a frame to the frame; sent and rcvd are the payloads
\* stored and the results read so far, seqs the seqNum fields written, in
\* order.  cmdHeadReg and statHeadReg are the head registers of the command
\* and the status queue, pending the frames stored that the GSP has yet to
\* consume, written the number of frames the GSP has put on the status queue,
\* passed the function ids waitRpcResponse dequeued while it waited for
\* another, unsentFrees the rmFree calls of a teardown that put no message on
\* the queue.  The bytes are kept only while traced
\* is set: Spec follows the queue by its pointers and its stores in regLog.
EmptyRing == [traced |-> FALSE, mem |-> <<>>, statQueueTail |-> 0, statTailReg |-> 0,
              sent |-> <<>>, seqs |-> <<>>, rcvd |-> <<>>,
              cmdHeadReg |-> 0, pending |-> <<>>,
              statHeadReg |-> 0, written |-> 0, passed |-> {}, unsentFrees |-> 0]

\* A 64-bit quantity as two limbs, hi * 2^20 + lo with lo < 2^20.
Wide(hi, lo) == [hi |-> hi, lo |-> lo]

\* NVDAALVASpace::init: the default range, the allocator at its start.
vaStart == Wide(2^16, 0)
vaLimit == Wide(2^20 - 1, 2^20 - 1)
NewVASpace == [currentVaOffset |-> vaStart, maps |-> <<>>]

\* Threads that call submit.
Workers == {1, 2}

\* A thread outside submit.
Outside == [at |-> 0, id |-> 0, slot |-> 0, rang |-> 0, pending |-> <<>>]

\* NVDAALChannel after OSObject's zero-filling new and init(): no handles, no
\* buffers, put = get = 0.  entries and doorbell are the ring and UserD word as
\* the GPU sees them (rung: UserD has been written), put0 is put when the ring
\* was last cleared; started counts the submit calls and done lists the
\* returned ones with the slot each wrote; gpGet is the slot the GPU fetches
\* next.
NewChannel == [hSubDevice |-> 0, hChannel |-> 0, gpfifoRing |-> FALSE, userd |-> FALSE,
               put |-> 0, get |-> 0, lock |-> 0, entries |-> <<>>, doorbell |-> 0,
               rung |-> FALSE, put0 |-> 0, started |-> 0, done |-> <<>>, gpGet |-> 0]

\* The allocations as the constructor leaves them: every member null, no buffer
\* handed out.  owner maps a member to the buffer it points at (0: null), bufs
\* lists every buffer allocDmaBuffer has returned with what became of it.  The
\* ledger is kept only while traced is set.
NoDma == [traced |-> FALSE, owner |-> [m \in MemberSet |-> 0], bufs |-> <<>>]

\* radix3Mem is null: no table.
NoRadix3 == [pages |-> 0, phys |-> 0, fw |-> [base |-> 0, stride |-> 0, hole |-> 0],
             stores |-> <<>>]

\* The objects built on top of the controller, as their init leaves them.
ExtInit ==
    /\ radix3 = NoRadix3
    /\ dma = NoDma
    /\ vaSpace = NewVASpace
    /\ lastHandle = 0
    /\ handles = <<>>
    /\ channel = NewChannel
    /\ workers = [w \in Workers |-> Outside]

\* ------------------------------------------------------------- constructor
Init ==
    /\ initialized = FALSE
    /\ gspReady = FALSE
    /\ mmioBase = FALSE
    /\ mem = NoBuffers
    /\ booterSize = "none"
    /\ vbios = "none"
    /\ fwsecInfo = NoFwsecInfo
    /\ wprMeta = "zero"
    /\ rpcSeqNum = 0
    /\ cmdQueueHead = 0
    /\ cmdQueueTail = 0
    /\ ring = EmptyRing
    /\ ExtInit
    /\ hw \in [wpr2En : BOOLEAN, mailbox0 : {"OTHER"}, riscvActive : {FALSE},
               cmdTail : {0}, wpr2HiRest : {0}, wpr2Lo : {0}]
    /\ pc = "idle"
    /\ call = NoCall
    /\ stages = <<>>
    /\ strategies = <<>>
    /\ regLog = <<>>
    /\ ret = RetNone
    /\ bootedSinceInit = FALSE

\* ---------------------------------------------------------------- helpers
\* An operation that runs in one step: from idle to done with result r.
FinishWith(c, r) ==
    /\ pc = "idle"
    /\ pc' = "done"
    /\ call' = c
    /\ ret' = r

Finish(op, r) == FinishWith(NewCall(op), r)

\* Control goes back to the caller of the public operation.
return ==
    /\ pc = "done"
    /\ pc' = "idle"
    /\ call' = NoCall
    /\ ret' = RetNone
    /\ stages' = <<>>
    /\ strategies' = <<>>
    /\ regLog' = <<>>
    /\ UNCHANGED <<gspVars, queueVars, hw>>

\* ------------------------------------------------------------- life cycle
\* allocDmaBuffer(&member, ...): the member is overwritten with the new
\* descriptor, or with null when the allocation or prepare() fails.
AllocDmaBuffer(d, member, ok) ==
    IF ~d.traced THEN d
    ELSE IF ok THEN [d EXCEPT !.bufs = Append(@, "live"),
                              !.owner[member] = Len(d.bufs) + 1]
    ELSE [d EXCEPT !.owner[member] = 0]

\* freeDmaBuffer(&member): complete and release what the member points at,
\* then null it; nothing for a null member.
FreeDmaBuffer(d, member) ==
    IF ~d.traced \/ d.owner[member] = 0 THEN d
    ELSE [d EXCEPT !.bufs[d.owner[member]] = IF @ = "live" THEN "released" ELSE "twice",
                   !.owner[member] = 0]

\* The ledger is followed up to MaxBufs buffers.
MaxBufs == 6

RoomFor(n) == dma.traced => Len(dma.bufs) + n <= MaxBufs

\* free(): freeDmaBuffer on the members from the k-th on, in free()'s order.
RECURSIVE FreeFrom(_, _)
FreeFrom(d, k) ==
    IF k > Len(Members) THEN d ELSE FreeFrom(FreeDmaBuffer(d, Members[k]), k + 1)

\* freeDmaBuffer on every member; the fields free() assigns.
freeBuffers == NoBuffers

\* The members free() finds non-null, in the order it releases them.
Released(m) == SelectSeq(Members, LAMBDA b : m[b])

\* The buffers init allocates, in order.
InitAllocs == <<"cmdQueueMem", "statQueueMem", "wprMetaMem">>

\* The ledger after the first k of init's allocations have succeeded.
RECURSIVE InitAllocated(_, _)
InitAllocated(d, k) ==
    IF k = 0 THEN d ELSE AllocDmaBuffer(InitAllocated(d, k - 1), InitAllocs[k], TRUE)

\* init: nOk allocations succeed before allocDmaBuffer fails (3 = all succeed);
\* a failure of the second or third allocation runs free().  The call record
\* lists what the call acquired and what it released, in order.
init(nOk) ==
    /\ pc = "idle"
    /\ RoomFor(3)
    /\ IF initialized
       THEN /\ Finish("init", RetBool(FALSE))
            /\ UNCHANGED <<gspVars>>
       ELSE LET got == {InitAllocs[k] : k \in 1..nOk}
                memAt == [b \in Buffers |->
                             IF b \in got THEN TRUE
                             ELSE IF nOk < 3 /\ b = InitAllocs[nOk + 1] THEN FALSE
                             ELSE mem[b]]
                dmaAt == IF nOk = 3 THEN InitAllocated(dma, 3)
                         ELSE AllocDmaBuffer(InitAllocated(dma, nOk), InitAllocs[nOk + 1],
                                             FALSE)
                torn == nOk \in {1, 2}
            IN  /\ FinishWith([NewCall("init") EXCEPT
                                   !.freed = torn,
                                   !.acquired = SubSeq(InitAllocs, 1, nOk),
                                   !.released = IF torn THEN Released(memAt) ELSE <<>>],
                              RetBool(nOk = 3))
                /\ initialized' = (nOk = 3)
                /\ gspReady' = IF torn THEN FALSE ELSE gspReady
                /\ mmioBase' = ~torn
                /\ mem' = IF torn THEN freeBuffers ELSE memAt
                /\ dma' = IF torn THEN FreeFrom(dmaAt, 1) ELSE dmaAt
                /\ booterSize' = IF torn THEN "none" ELSE booterSize
                /\ vbios' = IF torn THEN "none" ELSE vbios
                /\ wprMeta' = IF nOk = 0 THEN wprMeta ELSE "zero"
                /\ bootedSinceInit' = IF nOk = 3 THEN FALSE ELSE bootedSinceInit
                /\ UNCHANGED fwsecInfo
    /\ UNCHANGED <<queueVars, hw, traceVars>>

free ==
    /\ FinishWith([NewCall("free") EXCEPT !.freed = TRUE, !.released = Released(mem)],
                  RetNone)
    /\ gspReady' = FALSE
    /\ initialized' = FALSE
    /\ mem' = freeBuffers
    /\ dma' = FreeFrom(dma, 1)
    /\ booterSize' = "none"
    /\ vbios' = "none"
    /\ wprMeta' = "zero"
    /\ mmioBase' = FALSE
    /\ UNCHANGED <<fwsecInfo, bootedSinceInit, queueVars, hw, traceVars>>

\* ------------------------------------------------------- firmware hand-off
\* loadBooterLoad(data, size): size is "small" (< 256 bytes) or "ok".
loadBooterLoad(size, allocOk) ==
    /\ pc = "idle"
    /\ RoomFor(1)
    /\ Finish("loadBooterLoad", RetBool(initialized /\ allocOk))
    /\ IF ~initialized
       THEN UNCHANGED <<mem, dma, booterSize>>
       ELSE /\ mem' = [mem EXCEPT !["booterLoadMem"] = allocOk]
            /\ dma' = AllocDmaBuffer(FreeDmaBuffer(dma, "booterLoadMem"), "booterLoadMem",
                                     allocOk)
            /\ booterSize' = IF allocOk THEN size ELSE "none"
    /\ UNCHANGED <<initialized, gspReady, mmioBase, vbios, fwsecInfo, wprMeta,
                   bootedSinceInit, queueVars, hw, traceVars>>

\* loadBootloader(data, size): the new buffer goes into bootloaderMem as it is.
loadBootloader(allocOk) ==
    /\ pc = "idle"
    /\ RoomFor(1)
    /\ Finish("loadBootloader", RetBool(initialized /\ allocOk))
    /\ IF ~initialized
       THEN UNCHANGED <<mem, dma>>
       ELSE /\ mem' = [mem EXCEPT !["bootloaderMem"] = allocOk]
            /\ dma' = AllocDmaBuffer(dma, "bootloaderMem", allocOk)
    /\ UNCHANGED <<initialized, gspReady, mmioBase, booterSize, vbios, fwsecInfo, wprMeta,
                   bootedSinceInit, queueVars, hw, traceVars>>

\* The classes of VBIOS content parseVbios tells apart.
VbiosImages == {"noBit", "badToken", "noEntry", "fwsec", "fwsecNoSize", "fwsecBadRange"}

\* loadVbios(data, size): image is the class of the bytes handed in.
loadVbios(image, allocOk) ==
    /\ pc = "idle"
    /\ RoomFor(1)
    /\ Finish("loadVbios", RetBool(initialized /\ allocOk))
    /\ IF ~initialized
       THEN UNCHANGED <<mem, dma, vbios>>
       ELSE /\ mem' = [mem EXCEPT !["fwsecMem"] = allocOk]
            /\ dma' = AllocDmaBuffer(FreeDmaBuffer(dma, "fwsecMem"), "fwsecMem", allocOk)
            /\ vbios' = IF allocOk THEN image ELSE "none"
    /\ UNCHANGED <<initialized, gspReady, mmioBase, booterSize, fwsecInfo, wprMeta,
                   bootedSinceInit, queueVars, hw, traceVars>>

\* readVbiosFromBar(): romImage is what the ROM aperture holds, images whether
\* the scan of the copy finds a ROM image.
readVbiosFromBar(romImage, allocOk, images) ==
    /\ pc = "idle"
    /\ RoomFor(1)
    /\ Finish("readVbiosFromBar", RetBool(initialized /\ mmioBase /\ allocOk /\ images))
    /\ IF ~initialized \/ ~mmioBase
       THEN UNCHANGED <<mem, dma, vbios>>
       ELSE /\ mem' = [mem EXCEPT !["fwsecMem"] = allocOk]
            /\ dma' = AllocDmaBuffer(FreeDmaBuffer(dma, "fwsecMem"), "fwsecMem", allocOk)
            /\ vbios' = IF allocOk THEN romImage ELSE "none"
    /\ UNCHANGED <<initialized, gspReady, mmioBase, booterSize, fwsecInfo, wprMeta,
                   bootedSinceInit, queueVars, hw, traceVars>>

\* --------------------------------------------------------------- RPC send
\* Sizes of the caller's parameter block tried by the model.
ParamSizes == {0, 300}

\* A rounding without the + 0xFF: down to the multiple below.
AlignDown(n, a) == (n \div a) * a

\* (n + a - 1) & ~(a - 1) for a power of two a.
AlignUp(n, a) == ((n + a - 1) \div a) * a

\* freeSpace as enqueueCommand computes it from the local head and tail.
FreeSpace(head, tail) ==
    IF tail >= head THEN QUEUE_SIZE - tail + head ELSE head - tail

\* An enqueueCommand without the free-space test.
EnqueueRefusedNoQueueOnly(size) == ~mem["cmdQueueMem"]

\* enqueueCommand refuses: no queue, or not enough free space.
EnqueueRefused(size) ==
    \/ ~mem["cmdQueueMem"]
    \/ FreeSpace(cmdQueueHead, cmdQueueTail) < AlignUp(QueueElementHeader + size, 256)

\* elemCount as enqueueCommand stores it: the frame's length in 4 KiB pages.
ElemCount(size) == (AlignUp(QueueElementHeader + size, 256) + 4095) \div 4096

\* The buffer after a frame of len bytes has been stored at offset: the
\* frames that began inside it are gone.
StoreFrame(m, offset, len, frame) ==
    LET keep == {o \in DOMAIN m : o < offset \/ o >= offset + len}
    IN  [o \in keep \cup {offset} |-> IF o = offset THEN frame ELSE m[o]]

\* An enqueueCommand that stores rpcSeqNum without incrementing it.
SeqNumKept(n) == n

\* rpcSeqNum after elem->seqNum = rpcSeqNum++.
SeqNumAfter(n) == n + 1

\* An enqueueCommand that publishes the tail before it fills the frame.
EnqueueStoresTailFirst ==
    <<"cmdQueueTail", "PGSP_QUEUE_TAIL", "elem.seqNum", "elem.elemCount", "elem.reserved",
      "elem.data", "elem.checkSum">>

\* The stores of a successful enqueueCommand in statement order: the frame
\* header and payload, the checksum, the local tail, the tail register.
EnqueueStores ==
    <<"elem.seqNum", "elem.elemCount", "elem.reserved", "elem.data", "elem.checkSum",
      "cmdQueueTail", "PGSP_QUEUE_TAIL">>

\* enqueueCommand(msg, size): the frame is written at the tail, the tail
\* advances and is published in the hardware tail register.  data stands for
\* the size bytes of msg.
enqueueCommand(data, size) ==
    IF EnqueueRefused(size)
    THEN UNCHANGED <<queueVars, hw, regLog>>
    ELSE /\ rpcSeqNum' = SeqNumAfter(rpcSeqNum)
         /\ cmdQueueTail' =
                (cmdQueueTail + AlignUp(QueueElementHeader + size, 256)) % QUEUE_SIZE
         /\ hw' = [hw EXCEPT !.cmdTail = cmdQueueTail']
         /\ regLog' = regLog \o EnqueueStores
         /\ ring' = IF ~ring.traced THEN ring
                    ELSE [ring EXCEPT
                             !.mem = StoreFrame(@, cmdQueueTail,
                                                AlignUp(QueueElementHeader + size, 256),
                                                [seqNum |-> rpcSeqNum,
                                                 elemCount |-> ElemCount(size),
                                                 payload |-> [data |-> data, size |-> size]]),
                             !.sent = Append(@, [data |-> data, size |-> size]),
                             !.seqs = Append(@, rpcSeqNum),
                             !.statHeadReg =
                                 (cmdQueueTail + AlignUp(QueueElementHeader + size, 256))
                                     % QUEUE_SIZE,
                             !.pending =
                                 Append(@, [offset |-> cmdQueueTail,
                                            len |-> AlignUp(QueueElementHeader + size, 256)])]
         /\ UNCHANGED <<cmdQueueHead, extVars>>

\* A sendRpc without the gate: every function passes in every state.
RpcAllowedAlways(ready, function) == TRUE

\* The gate at the head of sendRpc.
RpcAllowed(ready, function) == ready \/ function = "GSP_SET_SYSTEM_INFO"

\* sendRpc(function, params, paramsSize) on behalf of the public operation
\* whose call record is c; the operation returns sendRpc's result and after.
\* c.size becomes the message size handed to enqueueCommand (0: not called).
sendRpcFor(c, function, paramsSize, mallocOk, after) ==
    /\ (RpcAllowed(gspReady, function) /\ mallocOk
            /\ ~EnqueueRefused(RpcHeaderSize + paramsSize)) => rpcSeqNum < MaxRpc
    /\ FinishWith([c EXCEPT !.fn = function,
                            !.size = IF RpcAllowed(gspReady, function) /\ mallocOk
                                     THEN RpcHeaderSize + paramsSize ELSE 0],
                  RetBool(/\ RpcAllowed(gspReady, function)
                          /\ mallocOk
                          /\ ~EnqueueRefused(RpcHeaderSize + paramsSize)
                          /\ after))
    /\ IF RpcAllowed(gspReady, function) /\ mallocOk
       THEN enqueueCommand(function, RpcHeaderSize + paramsSize)
       ELSE UNCHANGED <<queueVars, hw, regLog>>
    /\ UNCHANGED <<gspVars, stages, strategies>>

sendRpc(op, function, paramsSize, mallocOk) ==
    sendRpcFor(NewCall(op), function, paramsSize, mallocOk, TRUE)

\* An RM call whose header carries the status the GSP reports.
HeaderStatusFromGsp(gspStatus) == gspStatus

\* header->status as rmAlloc and rmControl read it after sendRpc: the 0 they
\* stored before the call; sendRpc copies the buffer and nothing writes the
\* GSP's answer back into it.
HeaderStatus(gspStatus) == 0

\* RM status values the GSP answers a request with: NV_OK and an error.
RmStatuses == {0, 1}

\* rmAlloc: NvGspAllocParams (5 words) + params.  gspStatus is the RM status
\* the GSP reports for the request.
rmAlloc(paramsSize, mallocOk, gspStatus) ==
    sendRpcFor([NewCall("rmAlloc") EXCEPT !.gspStatus = gspStatus],
               "GSP_RM_ALLOC", 20 + paramsSize, mallocOk, HeaderStatus(gspStatus) = 0)

\* rmControl: NvGspControlParams (6 words) + params.
rmControl(paramsSize, mallocOk, gspStatus) ==
    sendRpcFor([NewCall("rmControl") EXCEPT !.gspStatus = gspStatus],
               "GSP_RM_CONTROL", 24 + paramsSize, mallocOk, HeaderStatus(gspStatus) = 0)

\* rmFree: three handles.
rmFree(mallocOk) == sendRpc("rmFree", "GSP_RM_FREE", 12, mallocOk)

\* sendSystemInfo: one GspSystemInfo block.
sendSystemInfo(infoSize, mallocOk) ==
    sendRpc("sendSystemInfo", "GSP_SET_SYSTEM_INFO", infoSize, mallocOk)

\* setRegistry: key[64] + value.
setRegistry(mallocOk) == sendRpc("setRegistry", "SET_REGISTRY", 68, mallocOk)

\* ------------------------------------------------------ INIT_DONE handshake
\* A waitForInitDone that takes any mailbox value for INIT_DONE.
InitDoneSeenAny(mailbox) == TRUE

\* The comparison waitForInitDone makes on MAILBOX0.
InitDoneSeen(mailbox) == mailbox = "GSP_INIT_DONE"

\* What MAILBOX0 can read during a wait: a running GSP may post INIT_DONE;
\* nothing in the driver ever writes the register.
MailboxReads == IF hw.riscvActive THEN {hw.mailbox0, "GSP_INIT_DONE"} ELSE {hw.mailbox0}

\* waitForInitDone(timeoutMs): timeoutMs = 0 never reads the mailbox.
waitForInitDone(timeoutMs, mailbox) ==
    /\ mmioBase
    /\ mailbox \in MailboxReads
    /\ IF timeoutMs > 0
       THEN /\ hw' = [hw EXCEPT !.mailbox0 = mailbox]
            /\ gspReady' = (gspReady \/ InitDoneSeen(mailbox))
            /\ FinishWith([NewCall("waitForInitDone") EXCEPT !.seen = {mailbox}],
                          RetBool(InitDoneSeen(mailbox)))
       ELSE /\ mailbox = hw.mailbox0
            /\ Finish("waitForInitDone", RetBool(FALSE))
            /\ UNCHANGED <<hw, gspReady>>
    /\ UNCHANGED <<initialized, mmioBase, mem, dma, booterSize, vbios, fwsecInfo, wprMeta,
                   bootedSinceInit, queueVars, traceVars>>

\* Status messages as waitRpcResponse sees them: signature valid or not, function id.
Messages == [sig : BOOLEAN, function : {"GSP_RM_ALLOC", "GSP_INIT_DONE"}]

MsgSeqs == UNION {[1..n -> Messages] : n \in 0..MaxMsgs}

\* The message that ends the wait: signature valid and the awaited function.
Matches(m, function) == m.sig /\ m.function = function

\* Index of the first matching message, 0 when the wait times out.
RECURSIVE FirstMatch(_, _, _)
FirstMatch(msgs, function, i) ==
    IF i > Len(msgs) THEN 0
    ELSE IF Matches(msgs[i], function) THEN i
    ELSE FirstMatch(msgs, function, i + 1)

\* The dequeued messages that were passed over before the wait ended.
PassedOver(msgs, function) ==
    LET k == FirstMatch(msgs, function, 1)
    IN  IF k = 0 THEN 1..Len(msgs) ELSE 1..(k - 1)

\* A passed-over message flips gspReady when it carries the INIT_DONE event id.
AsyncInitDone(msgs, function) ==
    \E i \in PassedOver(msgs, function) : msgs[i].function = "GSP_INIT_DONE"

\* waitRpcResponse(function, ...): msgs are the frames the GSP delivers on the
\* status queue during the wait (none without a status queue or a running GSP),
\* crcOk is whether the checkSum field of the frame that ends the wait is the
\* CRC-32 of its payload (a wrong checkSum is followed for a frame that is
\* alone in the queue).
waitRpcResponse(function, msgs, crcOk) ==
    /\ pc = "idle"
    /\ mmioBase \/ ~mem["statQueueMem"]
    /\ (~mem["statQueueMem"] \/ ~hw.riscvActive) => msgs = <<>>
    /\ (FirstMatch(msgs, function, 1) = 0 \/ Len(msgs) > 1) => crcOk
    /\ FinishWith([NewCall("waitRpcResponse") EXCEPT
                       !.fn = function,
                       !.seen = {msgs[i].function : i \in PassedOver(msgs, function)},
                       !.crcBad = ~crcOk],
                  RetBool(FirstMatch(msgs, function, 1) # 0))
    /\ gspReady' = (gspReady \/ AsyncInitDone(msgs, function))
    /\ UNCHANGED <<initialized, mmioBase, mem, dma, booterSize, vbios, fwsecInfo, wprMeta,
                   bootedSinceInit, queueVars, hw, traceVars>>

\* ----------------------------------------------------------- boot sequence
\* The stages of bootEx in the order its code reaches them.
StageOrder == <<"FALCON_RESET", "SEC2_RESET", "FWSEC", "WPR_META", "BOOTER", "RISCV_START">>

Goto(p) == [pc |-> p, code |-> 0]
Return(c) == [pc |-> "done", code |-> c]

\* A bootEx that returns -stage at the first failing stage.
AfterStageFailFast(stage, ok) ==
    CASE stage = "FALCON_RESET" -> IF ok THEN Goto("resetSec2") ELSE Return(-2)
      [] stage = "SEC2_RESET"   -> IF ok THEN Goto("fwsecStage") ELSE Return(-2)
      [] stage = "FWSEC"        -> IF ok THEN Goto("wprMeta") ELSE Return(-3)
      [] stage = "WPR_META"     -> IF ok THEN Goto("booter") ELSE Return(-4)
      [] stage = "BOOTER"       -> IF ok THEN Goto("riscv") ELSE Return(-5)
      [] stage = "RISCV_START"  -> IF ok THEN Return(0) ELSE Return(-6)

\* A bootEx that goes from FWSEC straight to the booter, leaving the WPR
\* metadata page unwritten.
AfterStageSkipMeta(stage, ok) ==
    CASE stage = "FALCON_RESET" -> IF ok THEN Goto("resetSec2") ELSE Return(-2)
      [] stage = "SEC2_RESET"   -> Goto("fwsecStage")
      [] stage = "FWSEC"        -> Goto("booter")
      [] stage = "WPR_META"     -> IF ok THEN Goto("booter") ELSE Return(-4)
      [] stage = "BOOTER"       -> Goto("riscv")
      [] stage = "RISCV_START"  -> IF ok THEN Return(0) ELSE Return(-6)

\* Where bootEx goes after a stage returned ok: the next step, or a return code.
AfterStage(stage, ok) ==
    CASE stage = "FALCON_RESET" -> IF ok THEN Goto("resetSec2") ELSE Return(-2)
      [] stage = "SEC2_RESET"   -> Goto("fwsecStage")
      [] stage = "FWSEC"        -> Goto("wprMeta")
      [] stage = "WPR_META"     -> IF ok THEN Goto("booter") ELSE Return(-4)
      [] stage = "BOOTER"       -> Goto("riscv")
      [] stage = "RISCV_START"  -> IF ok THEN Return(0) ELSE Return(-6)

\* boot() is bootEx() == 0.
BootSucceeded(code) == code = 0

\* What a finished boot hands back: i is bootEx's return code, b is what
\* boot() returns for it.
BootResult(code) == [kind |-> "boot", b |-> BootSucceeded(code), i |-> code]

\* A stage of bootEx has returned ok; c is the call record after the stage.
StageDone(stage, ok, c) ==
    LET n == AfterStage(stage, ok)
    IN  /\ pc' = n.pc
        /\ call' = [c EXCEPT !.failed = IF ok THEN @ ELSE @ \cup {stage}]
        /\ ret' = IF n.pc = "done" THEN BootResult(n.code) ELSE RetNone
        /\ bootedSinceInit' = (bootedSinceInit \/ (n.pc = "done" /\ n.code = 0))

\* boot() enters bootEx(): the initialised check and the pre-boot register reads.
boot ==
    /\ pc = "idle"
    /\ IF ~initialized
       THEN /\ pc' = "done"
            /\ ret' = BootResult(-1)
       ELSE /\ pc' = "resetFalcon"
            /\ ret' = RetNone
    /\ call' = [NewCall("boot") EXCEPT !.caller = "bootEx"]
    /\ UNCHANGED <<gspVars, queueVars, hw, traceVars>>

\* resetFalcon: CPUCTL = 0, read back HALTED; a core that is not halted is
\* only logged, the function returns true.
resetFalconOk(halted) == TRUE

resetFalcon(halted) ==
    /\ pc = "resetFalcon"
    /\ stages' = Append(stages, "FALCON_RESET")
    /\ regLog' = Append(regLog, "PGSP_FALCON_CPUCTL=0")
    /\ StageDone("FALCON_RESET", resetFalconOk(halted), call)
    /\ UNCHANGED <<bootFrame, mem, dma, vbios, fwsecInfo, wprMeta, hw, strategies>>

\* resetSec2: Falcon reset, then a RISC-V halt request if the core is not halted.
resetSec2(halted1, halted2) ==
    /\ pc = "resetSec2"
    /\ stages' = Append(stages, "SEC2_RESET")
    /\ regLog' = regLog \o <<"PSEC_FALCON_CPUCTL=0">>
                        \o (IF halted1 THEN <<>> ELSE <<"PSEC_RISCV_CPUCTL|HALT">>)
    /\ StageDone("SEC2_RESET", halted1 \/ halted2, call)
    /\ UNCHANGED <<bootFrame, mem, dma, vbios, fwsecInfo, wprMeta, hw, strategies>>

\* checkWpr2Setup: the enabled bit of WPR2_ADDR_HI decides, WPR2_ADDR_LO does not.
checkWpr2Setup(wpr2HiEnabled) == wpr2HiEnabled

\* Step 2 of bootEx: read the VBIOS from BAR0 when none is loaded (romImage is
\* what the ROM aperture holds), then run executeFwsecFrts, or only check WPR2
\* when there is still no VBIOS buffer.
fwsecStage(romImage, allocOk) ==
    /\ pc = "fwsecStage"
    /\ stages' = Append(stages, "FWSEC")
    /\ IF mem["fwsecMem"]
       THEN UNCHANGED <<mem, dma, vbios>>
       ELSE /\ mem' = [mem EXCEPT !["fwsecMem"] = allocOk]
            /\ dma' = AllocDmaBuffer(FreeDmaBuffer(dma, "fwsecMem"), "fwsecMem", allocOk)
            /\ vbios' = IF allocOk THEN romImage ELSE "none"
    /\ IF mem'["fwsecMem"]
       THEN /\ pc' = "fwsec"
            /\ call' = call
            /\ ret' = RetNone
            /\ UNCHANGED bootedSinceInit
       ELSE StageDone("FWSEC", checkWpr2Setup(hw.wpr2En),
                      [call EXCEPT !.skipped = @ \cup {"FWSEC"}])
    /\ UNCHANGED <<bootFrame, fwsecInfo, wprMeta, hw, strategies, regLog>>

\* -------------------------------------------------------------- FWSEC-FRTS
\* storedSize of the FWSEC blob in a parsed image: two 256-byte DMA blocks.
FwsecStoredSize == 512

\* Length of the VBIOS buffer handed to parseVbios.
VbiosSize == 2^20

\* The FalconUcodeDescV3 of an image with a FWSEC entry, and where it lies: in
\* class "fwsecBadRange" its DMEM range ends past the end of the buffer.
UcodeDesc(image) ==
    [descOffset |-> 2^19, imemOffset |-> 2^8, imemSize |-> 2^12, dmemOffset |-> 2^13,
     dmemSize |-> IF image = "fwsecBadRange" THEN 2^19 ELSE 2^12]

\* The ranges parseVbios stores in fwsecInfo for a descriptor.
RecordedRanges(d) ==
    [imemOffset |-> d.descOffset + d.imemOffset, imemSize |-> d.imemSize,
     dmemOffset |-> d.descOffset + d.dmemOffset, dmemSize |-> d.dmemSize]

\* The test executeFwsecFrts makes before its PIO load: both ranges end inside
\* the buffer.
RangesInside(r, size) ==
    r.imemOffset + r.imemSize <= size /\ r.dmemOffset + r.dmemSize <= size

\* parseVbios on an image of the given class: its return value and the
\* FalconUcodeInfo it leaves (some paths return without touching it).
parseVbios(image, info) ==
    CASE image = "noBit"    -> [ok |-> TRUE, info |-> [info EXCEPT !.valid = FALSE]]
      [] image = "badToken" -> [ok |-> FALSE, info |-> info]
      [] image = "noEntry"  -> [ok |-> TRUE, info |-> info]
      [] image = "fwsec"    ->
            [ok |-> TRUE,
             info |-> [valid |-> TRUE, storedSize |-> FwsecStoredSize,
                       rangesOk |-> RangesInside(RecordedRanges(UcodeDesc(image)),
                                                 VbiosSize)]]
      [] image = "fwsecNoSize" ->
            [ok |-> TRUE,
             info |-> [valid |-> TRUE, storedSize |-> 0,
                       rangesOk |-> RangesInside(RecordedRanges(UcodeDesc(image)),
                                                 VbiosSize)]]
      [] image = "fwsecBadRange" ->
            [ok |-> TRUE,
             info |-> [valid |-> TRUE, storedSize |-> FwsecStoredSize,
                       rangesOk |-> RangesInside(RecordedRanges(UcodeDesc(image)),
                                                 VbiosSize)]]

\* executeFwsecFrts hands r back: to bootEx (whose FWSEC stage it ends) or to
\* the caller of the public operation.  c is the call record at that point.
FwsecExit(c, r) ==
    LET d == [c EXCEPT !.fwDone = TRUE, !.fwRet = r, !.fwLogEnd = Len(regLog')]
    IN  IF c.caller = "bootEx"
        THEN StageDone("FWSEC", r, d)
        ELSE /\ pc' = "done"
             /\ call' = d
             /\ ret' = RetBool(r)
             /\ UNCHANGED bootedSinceInit

\* An executeFwsecFrts without the early return.
AlreadyConfiguredNever(wpr2HiEnabled) == FALSE

\* The first test of executeFwsecFrts: WPR2 already set up ends the call.
AlreadyConfigured(wpr2HiEnabled) == checkWpr2Setup(wpr2HiEnabled)

\* An executeFwsecFrts that reports success without a VBIOS.
WithoutVbiosSucceeds == TRUE

\* What executeFwsecFrts returns when WPR2 is not enabled and fwsecMem is null.
WithoutVbios == FALSE

\* Head of executeFwsecFrts: WPR2 check, VBIOS presence, parse when the
\* descriptor is not valid, validity test.  c is the call record on entry.
fwsecHead(c) ==
    LET e == [c EXCEPT !.wpr2AtEntry = hw.wpr2En, !.fwLogStart = Len(regLog),
                       !.fwNoVbios = ~mem["fwsecMem"]]
        p == parseVbios(vbios, fwsecInfo)
    IN  IF AlreadyConfigured(hw.wpr2En)
        THEN /\ FwsecExit([e EXCEPT !.wpr2Seen = hw.wpr2En], TRUE)
             /\ UNCHANGED fwsecInfo
        ELSE IF ~mem["fwsecMem"]
        THEN /\ FwsecExit(e, WithoutVbios)
             /\ UNCHANGED fwsecInfo
        ELSE IF fwsecInfo.valid
        THEN /\ pc' = "brom"
             /\ call' = e
             /\ ret' = RetNone
             /\ UNCHANGED <<fwsecInfo, bootedSinceInit>>
        ELSE /\ fwsecInfo' = p.info
             /\ IF p.ok /\ p.info.valid
                THEN /\ pc' = "brom"
                     /\ call' = [e EXCEPT !.parsed = TRUE]
                     /\ ret' = RetNone
                     /\ UNCHANGED bootedSinceInit
                ELSE FwsecExit([e EXCEPT !.parsed = TRUE], FALSE)

\* executeFwsecFrts as step 2b of bootEx.
executeFwsecFrtsInBoot ==
    /\ pc = "fwsec"
    /\ UNCHANGED <<bootFrame, mem, dma, vbios, wprMeta, hw, traceVars>>
    /\ fwsecHead(call)

\* executeFwsecFrts called on its own (it reads registers through mmioBase).
executeFwsecFrts ==
    /\ pc = "idle"
    /\ mmioBase
    /\ UNCHANGED <<bootFrame, mem, dma, vbios, wprMeta, hw, traceVars>>
    /\ fwsecHead([NewCall("executeFwsecFrts") EXCEPT !.caller = "api"])

\* METHOD 1 and METHOD 2 are tried when the blob size and address are known.
BromApplicable == fwsecInfo.storedSize > 0 /\ mem["fwsecMem"]
DmaApplicable == mem["fwsecMem"] /\ fwsecInfo.storedSize > 0

\* A strategy is started: its name, WPR2 in hardware at that moment and the
\* position of its first register write.
Started(name) ==
    Append(strategies, [name |-> name, wpr2AtStart |-> hw.wpr2En, first |-> Len(regLog) + 1])

\* Register writes of executeFwsecViaBrom.
BromWrites == <<"PRISCV_BCR_DMEM_ADDR", "PRISCV_BCR_CTRL">>

\* A Boot ROM strategy that trusts the halt and the return code.
BromResultOnHalt(halted, retcodeZero, wpr2HiEnabled) == halted /\ retcodeZero

\* After the Boot ROM poll only the WPR2 check decides the result.
BromResult(halted, retcodeZero, wpr2HiEnabled) == checkWpr2Setup(wpr2HiEnabled)

\* METHOD 1: executeFwsecViaBrom.  halted / retcodeZero are what the poll
\* ends with, carved whether the run enabled WPR2.
fwsecViaBrom(halted, retcodeZero, carved) ==
    /\ pc = "brom"
    /\ IF BromApplicable
       THEN LET en == hw.wpr2En \/ carved
                r == BromResult(halted, retcodeZero, en)
                c == [call EXCEPT !.wpr2Seen = @ \/ en]
            IN  /\ strategies' = Started("BROM")
                /\ regLog' = regLog \o BromWrites
                /\ hw' = [hw EXCEPT !.wpr2En = en]
                /\ IF r THEN FwsecExit(c, TRUE)
                        ELSE /\ pc' = "dma"
                             /\ call' = c
                             /\ ret' = RetNone
                             /\ UNCHANGED bootedSinceInit
       ELSE /\ ~halted /\ ~retcodeZero /\ ~carved
            /\ pc' = "dma"
            /\ UNCHANGED <<call, ret, bootedSinceInit, hw, strategies, regLog>>
    /\ UNCHANGED <<bootFrame, mem, dma, vbios, fwsecInfo, wprMeta, stages>>

\* Register writes of loadFalconUcodeDma for a blob of size bytes.
RECURSIVE DmaBlockWrites(_)
DmaBlockWrites(size) ==
    IF size <= 0 THEN <<>>
    ELSE <<"PGSP_DMATRFMOFFS", "PGSP_DMATRFFBOFFS", "PGSP_DMATRFCMD">>
             \o DmaBlockWrites(size - 256)

\* Steps 1 to 4 of loadFalconUcodeDma: reset, interface, FBIF, DMA base.
DmaSetupWrites ==
    <<"PGSP_FALCON_CPUCTL=0", "PGSP_FALCON_ITFEN", "PGSP_FBIF_TRANSCFG0",
      "PGSP_FBIF_TRANSCFG1", "PGSP_FBIF_CTL", "PGSP_DMATRFBASE", "PGSP_DMATRFBASE1">>

\* Steps 6 and 7 of loadFalconUcodeDma: boot vector, start.
DmaStartWrites == <<"PGSP_FALCON_BOOTVEC", "PGSP_FALCON_CPUCTL=STARTCPU">>

DmaWrites(size) == DmaSetupWrites \o DmaBlockWrites(size) \o DmaStartWrites

\* The DMA strategy checks WPR2 only after it has seen the Falcon halted.
DmaChecksWpr2(halted) == halted

\* METHOD 2: loadFalconUcodeDma, halt poll, WPR2 check.
fwsecViaDma(halted, carved) ==
    /\ pc = "dma"
    /\ IF DmaApplicable
       THEN LET en == hw.wpr2En \/ carved
                checked == DmaChecksWpr2(halted)
                r == checked /\ checkWpr2Setup(en)
                c == [call EXCEPT !.wpr2Seen = @ \/ (checked /\ en)]
            IN  /\ strategies' = Started("DMA")
                /\ regLog' = regLog \o DmaWrites(fwsecInfo.storedSize)
                /\ hw' = [hw EXCEPT !.wpr2En = en]
                /\ IF r THEN FwsecExit(c, TRUE)
                        ELSE /\ pc' = "pio"
                             /\ call' = c
                             /\ ret' = RetNone
                             /\ UNCHANGED bootedSinceInit
       ELSE /\ ~halted /\ ~carved
            /\ pc' = "pio"
            /\ UNCHANGED <<call, ret, bootedSinceInit, hw, strategies, regLog>>
    /\ UNCHANGED <<bootFrame, mem, dma, vbios, fwsecInfo, wprMeta, stages>>

\* Register writes of METHOD 3 after its reset.
PioLoadWrites == <<"PGSP_FALCON_IMEM", "PGSP_FALCON_DMEM", "PGSP_FALCON_BOOTVEC",
                   "PGSP_FALCON_CPUCTL=STARTCPU">>

\* METHOD 3: reset, offset validation, DMEM copy, PIO load, start, poll, check.
fwsecViaPio(mallocOk, halted, carved) ==
    /\ pc = "pio"
    /\ strategies' = Started("PIO")
    /\ IF fwsecInfo.rangesOk /\ mallocOk
       THEN LET en == hw.wpr2En \/ carved
                r == checkWpr2Setup(en)
            IN  /\ regLog' = regLog \o <<"PGSP_FALCON_CPUCTL=0">> \o PioLoadWrites
                /\ hw' = [hw EXCEPT !.wpr2En = en]
                /\ FwsecExit([call EXCEPT !.wpr2Seen = @ \/ en], r)
       ELSE /\ ~halted /\ ~carved
            /\ regLog' = Append(regLog, "PGSP_FALCON_CPUCTL=0")
            /\ FwsecExit(call, FALSE)
            /\ UNCHANGED hw
    /\ UNCHANGED <<bootFrame, mem, dma, vbios, fwsecInfo, wprMeta, stages>>

\* setupWprMeta: fills the WPR metadata page; fails only without the buffer.
setupWprMeta ==
    /\ pc = "wprMeta"
    /\ stages' = Append(stages, "WPR_META")
    /\ IF mem["wprMetaMem"]
       THEN /\ wprMeta' = "WPR2"
            /\ regLog' = Append(regLog, "wprMeta=WPR2")
       ELSE UNCHANGED <<wprMeta, regLog>>
    /\ StageDone("WPR_META", mem["wprMetaMem"], call)
    /\ UNCHANGED <<bootFrame, mem, dma, vbios, fwsecInfo, hw, strategies>>

\* Register writes of executeBooterLoad up to the SEC2 start.
BooterWrites == <<"PSEC_FALCON_MAILBOX0", "PSEC_FALCON_MAILBOX1", "PSEC_BCR_DMEM_ADDR",
                  "PSEC_BCR_CTRL", "PSEC_RISCV_CPUCTL|START">>

\* Step 4: executeBooterLoad when a booter is loaded; outcome is what the SEC2
\* poll ends with ("ok", "fail" or "timeout").
executeBooterLoad(outcome) ==
    /\ pc = "booter"
    /\ stages' = Append(stages, "BOOTER")
    /\ IF mem["booterLoadMem"]
       THEN /\ regLog' = IF booterSize = "small" THEN regLog ELSE regLog \o BooterWrites
            /\ StageDone("BOOTER", booterSize # "small" /\ outcome = "ok", call)
       ELSE /\ outcome = "ok"
            /\ UNCHANGED regLog
            /\ StageDone("BOOTER", TRUE, [call EXCEPT !.skipped = @ \cup {"BOOTER"}])
    /\ UNCHANGED <<bootFrame, mem, dma, vbios, fwsecInfo, wprMeta, hw, strategies>>

\* Register writes of startRiscv, in program order.
RiscvWrites == <<"PRISCV_BCR_DMEM_ADDR", "PRISCV_BCR_CTRL", "PRISCV_CPUCTL=START">>

\* A startRiscv that reports success whatever the poll read.
RiscvStartedAlways(active) == TRUE

\* What ends the start poll with success: a read of CPUCTL with ACTIVE set.
RiscvStarted(active) == active

\* Iterations of the start poll in startRiscv.
RiscvPollLimit == 100

\* The polls at which the model lets CPUCTL.ACTIVE first read set: 0 is never.
ActiveAt == {0, 1, RiscvPollLimit}

\* A startRiscv that polls until ACTIVE reads set.
PollsMadeNoBudget(activeAt) ==
    IF activeAt >= 1 THEN activeAt ELSE RiscvPollLimit + 1

\* Polls startRiscv makes when ACTIVE first reads set at poll activeAt.
PollsMade(activeAt) ==
    IF activeAt >= 1 /\ activeAt <= RiscvPollLimit THEN activeAt ELSE RiscvPollLimit

\* Step 5: startRiscv.  activeAt is the poll at which CPUCTL.ACTIVE first reads
\* set (0: at none of them).
startRiscv(activeAt) ==
    LET active == activeAt >= 1 /\ activeAt <= PollsMade(activeAt)
    IN  /\ pc = "riscv"
        /\ stages' = Append(stages, "RISCV_START")
        /\ regLog' = regLog \o RiscvWrites
        /\ hw' = [hw EXCEPT !.riscvActive = active]
        /\ StageDone("RISCV_START", RiscvStarted(active),
                     [call EXCEPT !.activeSeen = active, !.polls = PollsMade(activeAt)])
        /\ UNCHANGED <<bootFrame, mem, dma, vbios, fwsecInfo, wprMeta, strategies>>

Next ==
    \/ \E nOk \in 0..3 : init(nOk)
    \/ free
    \/ \E size \in {"small", "ok"}, allocOk \in BOOLEAN : loadBooterLoad(size, allocOk)
    \/ \E image \in VbiosImages, allocOk \in BOOLEAN : loadVbios(image, allocOk)
    \/ \E sz \in ParamSizes, mallocOk \in BOOLEAN, st \in RmStatuses : rmAlloc(sz, mallocOk, st)
    \/ \E sz \in ParamSizes, mallocOk \in BOOLEAN, st \in RmStatuses :
           rmControl(sz, mallocOk, st)
    \/ \E mallocOk \in BOOLEAN : rmFree(mallocOk)
    \/ \E sz \in ParamSizes, mallocOk \in BOOLEAN : sendSystemInfo(sz, mallocOk)
    \/ \E mallocOk \in BOOLEAN : setRegistry(mallocOk)
    \/ \E t \in {0, 10}, mailbox \in {"OTHER", "GSP_INIT_DONE"} : waitForInitDone(t, mailbox)
    \/ \E function \in {"GSP_RM_ALLOC", "GSP_INIT_DONE"}, msgs \in MsgSeqs, crcOk \in BOOLEAN :
           waitRpcResponse(function, msgs, crcOk)
    \/ boot
    \/ \E halted \in BOOLEAN : resetFalcon(halted)
    \/ \E halted1, halted2 \in BOOLEAN : resetSec2(halted1, halted2)
    \/ \E romImage \in VbiosImages, allocOk \in BOOLEAN : fwsecStage(romImage, allocOk)
    \/ executeFwsecFrtsInBoot
    \/ executeFwsecFrts
    \/ \E halted, retcodeZero, carved \in BOOLEAN : fwsecViaBrom(halted, retcodeZero, carved)
    \/ \E halted, carved \in BOOLEAN : fwsecViaDma(halted, carved)
    \/ \E mallocOk, halted, carved \in BOOLEAN : fwsecViaPio(mallocOk, halted, carved)
    \/ setupWprMeta
    \/ \E outcome \in {"ok", "fail", "timeout"} : executeBooterLoad(outcome)
    \/ \E activeAt \in ActiveAt : startRiscv(activeAt)
    \/ return

Spec == Init /\ [][Next]_vars

\* ===================================================== the two poll loops
\* loadFalconUcodeDma and startRiscv taken one loop iteration at a step, in a
\* driver that init() has set up and that holds a parsed FWSEC image.

\* fwSize values loadFalconUcodeDma is applied to.
DmaSizes == {256, FwsecStoredSize, 700}

\* Iterations of the DMATRFCMD poll of one block.
DmaPollLimit == 1000

\* The polls at which DMATRFCMD first reads IDLE for a block: 0 is never.
IdleAt == {0, 1, DmaPollLimit}

\* What the poll of one block leaves: the reads it made and whether one of
\* them had IDLE set.  The loop only breaks early on IDLE.
DmaBlockPoll(idleAt) ==
    IF idleAt >= 1 /\ idleAt <= DmaPollLimit
    THEN [polls |-> idleAt, idle |-> TRUE]
    ELSE [polls |-> DmaPollLimit, idle |-> FALSE]

\* loadFalconUcodeDma up to its block loop.
loadFalconUcodeDma(fwSize) ==
    /\ pc = "idle"
    /\ pc' = "dmaBlock"
    /\ call' = [NewCall("loadFalconUcodeDma") EXCEPT !.fwSize = fwSize]
    /\ ret' = RetNone
    /\ regLog' = DmaSetupWrites
    /\ UNCHANGED <<gspVars, queueVars, hw, stages, strategies>>

\* One iteration of the block loop: three register writes, then the poll.
loadFalconUcodeDmaBlock(idleAt) ==
    /\ pc = "dmaBlock"
    /\ call.offset < call.fwSize
    /\ regLog' = regLog \o DmaBlockWrites(256)
    /\ call' = [call EXCEPT !.offset = @ + 256,
                            !.blockPolls = Append(@, DmaBlockPoll(idleAt))]
    /\ UNCHANGED <<gspVars, queueVars, hw, stages, strategies, pc, ret>>

\* After the loop: boot vector, STARTCPU, return true.
loadFalconUcodeDmaStart ==
    /\ pc = "dmaBlock"
    /\ call.offset >= call.fwSize
    /\ regLog' = regLog \o DmaStartWrites
    /\ pc' = "done"
    /\ ret' = RetBool(TRUE)
    /\ UNCHANGED <<gspVars, queueVars, hw, stages, strategies, call>>

\* Values a read of BR_RETCODE is taken from.
Retcodes == {"0", "0xbadf5040", "other"}

\* The test startRiscv makes on a retcode before it logs a boot error.
RetcodeIsError(retcode) == retcode # "0" /\ retcode # "0xbadf5040"

\* startRiscv up to its poll loop.
startRiscvEnter ==
    /\ pc = "idle"
    /\ pc' = "riscvPoll"
    /\ call' = NewCall("startRiscv")
    /\ ret' = RetNone
    /\ regLog' = RiscvWrites
    /\ UNCHANGED <<gspVars, queueVars, hw, stages, strategies>>

\* One iteration of the poll loop: CPUCTL and BR_RETCODE are read, ACTIVE is
\* tested first, an error retcode is logged and the loop goes on.
startRiscvPoll(active, retcode) ==
    LET c == [call EXCEPT !.polls = @ + 1,
                          !.activeSeen = active,
                          !.retcodeErr = @ \/ RetcodeIsError(retcode)]
    IN  /\ pc = "riscvPoll"
        /\ call' = c
        /\ hw' = [hw EXCEPT !.riscvActive = active]
        /\ IF RiscvStarted(active)
           THEN /\ pc' = "done"
                /\ ret' = RetBool(TRUE)
           ELSE IF c.polls < RiscvPollLimit
           THEN /\ pc' = "riscvPoll"
                /\ ret' = RetNone
           ELSE /\ pc' = "done"
                /\ ret' = RetBool(FALSE)
        /\ UNCHANGED <<gspVars, queueVars, traceVars>>

PollInit ==
    /\ initialized = TRUE
    /\ gspReady = FALSE
    /\ mmioBase = TRUE
    /\ mem = [b \in Buffers |-> b \in {"cmdQueueMem", "statQueueMem", "wprMetaMem", "fwsecMem"}]
    /\ booterSize = "none"
    /\ vbios = "fwsec"
    /\ fwsecInfo = parseVbios("fwsec", NoFwsecInfo).info
    /\ wprMeta = "WPR2"
    /\ rpcSeqNum = 0
    /\ cmdQueueHead = 0
    /\ cmdQueueTail = 0
    /\ ring = EmptyRing
    /\ ExtInit
    /\ hw \in [wpr2En : BOOLEAN, mailbox0 : {"OTHER"}, riscvActive : {FALSE},
               cmdTail : {0}, wpr2HiRest : {0}, wpr2Lo : {0}]
    /\ pc = "idle"
    /\ call = NoCall
    /\ stages = <<>>
    /\ strategies = <<>>
    /\ regLog = <<>>
    /\ ret = RetNone
    /\ bootedSinceInit = FALSE

PollNext ==
    \/ \E fwSize \in DmaSizes : loadFalconUcodeDma(fwSize)
    \/ \E idleAt \in IdleAt : loadFalconUcodeDmaBlock(idleAt)
    \/ loadFalconUcodeDmaStart
    \/ startRiscvEnter
    \/ \E active \in BOOLEAN, retcode \in Retcodes : startRiscvPoll(active, retcode)
    \/ return

PollSpec == PollInit /\ [][PollNext]_vars

\* ======================================================= the ring round trip
\* enqueueCommand and dequeueStatus applied to one queue buffer: the frames
\* dequeueStatus reads are the frames enqueueCommand stored, and the head
\* register it reads holds the tail enqueueCommand published.

\* Most frames stored in, and most frames read from, the ring in one run.
MaxFrames == 3

\* Payloads handed to enqueueCommand: what the bytes are and how many.  The
\* largest fills half of the queue with its frame.
Payloads == [data : {"A", "B"}, size : {100, 5000, 131056}]

\* Sizes of the parameter block of the RM calls made on the ring.
RingParamSizes == {0, 131056}

\* Sizes of the buffer the caller of dequeueStatus passes.
MaxSizes == {4096, QUEUE_SIZE}

\* What dequeueStatus finds at offset: a stored frame, or zeroed memory.
FrameAt(m, offset) ==
    IF offset \in DOMAIN m THEN m[offset]
    ELSE [seqNum |-> 0, elemCount |-> 0, payload |-> [data |-> "zero", size |-> 0]]

\* enqueueCommand(msg, size) called on its own.
ringEnqueue(payload) ==
    /\ ~EnqueueRefused(payload.size) => rpcSeqNum < MaxFrames
    /\ FinishWith([NewCall("enqueueCommand") EXCEPT !.size = payload.size],
                  RetBool(~EnqueueRefused(payload.size)))
    /\ enqueueCommand(payload.data, payload.size)
    /\ UNCHANGED <<gspVars, stages, strategies>>

\* Bytes dequeueStatus copies out of a frame of elemCount pages: the size_t
\* difference wraps when elemCount is 0, and the caller's maxSize caps it.
CopiedSize(elemCount, maxSize) ==
    IF elemCount * 4096 < QueueElementHeader THEN maxSize
    ELSE IF elemCount * 4096 - QueueElementHeader > maxSize THEN maxSize
    ELSE elemCount * 4096 - QueueElementHeader

\* dequeueStatus(msg, maxSize, actualSize).
ringDequeue(maxSize) ==
    LET f == FrameAt(ring.mem, ring.statQueueTail)
        next == (ring.statQueueTail + f.elemCount * 4096) % QUEUE_SIZE
    IN  /\ Len(ring.rcvd) < MaxFrames
        /\ IF ~mem["statQueueMem"] \/ ring.statHeadReg = ring.statQueueTail
           THEN /\ Finish("dequeueStatus", RetBool(FALSE))
                /\ UNCHANGED ring
           ELSE /\ Finish("dequeueStatus", RetBool(TRUE))
                /\ ring' = [ring EXCEPT
                                !.statQueueTail = next,
                                !.statTailReg = next,
                                !.rcvd = Append(@, [payload |-> f.payload,
                                                    size |-> CopiedSize(f.elemCount, maxSize),
                                                    maxSize |-> maxSize])]
        /\ UNCHANGED <<gspVars, queuePtrs, extVars, hw, traceVars>>

RingInit ==
    /\ initialized = TRUE
    /\ gspReady = TRUE
    /\ mmioBase = TRUE
    /\ mem = [b \in Buffers |-> b \in {"cmdQueueMem", "statQueueMem", "wprMetaMem"}]
    /\ booterSize = "none"
    /\ vbios = "none"
    /\ fwsecInfo = NoFwsecInfo
    /\ wprMeta = "zero"
    /\ rpcSeqNum = 0
    /\ cmdQueueHead = 0
    /\ cmdQueueTail = 0
    /\ ring = [EmptyRing EXCEPT !.traced = TRUE]
    /\ ExtInit
    /\ hw = [wpr2En |-> TRUE, mailbox0 |-> "GSP_INIT_DONE", riscvActive |-> TRUE,
             cmdTail |-> 0, wpr2HiRest |-> 0, wpr2Lo |-> 0]
    /\ pc = "idle"
    /\ call = NoCall
    /\ stages = <<>>
    /\ strategies = <<>>
    /\ regLog = <<>>
    /\ ret = RetNone
    /\ bootedSinceInit = TRUE

RingNext ==
    \/ \E payload \in Payloads : ringEnqueue(payload)
    \/ \E sz \in RingParamSizes, mallocOk \in BOOLEAN, st \in RmStatuses :
           rmAlloc(sz, mallocOk, st)
    \/ \E sz \in RingParamSizes, mallocOk \in BOOLEAN, st \in RmStatuses :
           rmControl(sz, mallocOk, st)
    \/ \E mallocOk \in BOOLEAN : rmFree(mallocOk)
    \/ \E mallocOk \in BOOLEAN : setRegistry(mallocOk)
    \/ \E maxSize \in MaxSizes : ringDequeue(maxSize)
    \/ return

RingSpec == RingInit /\ [][RingNext]_vars

\* ============================================================= channel
\* NVDAALChannel on a controller whose GSP is up: boot() and free() step by
\* step, and submit() called from several threads.  Stores to the GPFIFO ring
\* and to UserD reach the GPU in any order unless a fence separates them: a
\* thread's stores wait in its pending list until drain makes them visible.

\* Most handles a run takes from nextHandle.
MaxHandles == 6
\* Most submit calls a run starts.
MaxSubmits == 2

ringSize == 4096

\* A nextHandle that hands out the last handle again.
NextHandleKept(n) == n

\* nextHandle(): the counter after the increment, which is the value returned.
NextHandle(n) == n + 1

step(kind, what, size, fatal) == [kind |-> kind, what |-> what, size |-> size, fatal |-> fatal]

\* NVDAALChannel::boot in statement order.  The UserD registration is the one
\* rmAlloc whose failure boot ignores.
ChannelBootSteps ==
    <<step("handle", "hSubDevice", 0, TRUE),
      step("rmAlloc", "hSubDevice", 0, TRUE),
      step("alloc", "gpfifoRing", 0, TRUE),
      step("alloc", "userd", 0, TRUE),
      step("handle", "hUserdMem", 0, TRUE),
      step("rmAlloc", "hUserdMem", 24, FALSE),
      step("handle", "hChannel", 0, TRUE),
      step("rmAlloc", "hChannel", 28, TRUE)>>

\* NVDAALChannel::free in statement order; the object is gone afterwards and
\* the next one starts as NewChannel.
ChannelFreeSteps ==
    <<step("rmFree", "hChannel", 12, FALSE),
      step("rmFree", "hSubDevice", 12, FALSE),
      step("release", "channel", 0, FALSE)>>

StepsOf(op) == IF op = "channelBoot" THEN ChannelBootSteps ELSE ChannelFreeSteps

NoSubmitRunning == \A w \in Workers : workers[w] = Outside

\* boot() or free() is called on the channel.
channelCall(op) ==
    /\ pc = "idle"
    /\ NoSubmitRunning
    /\ op = "channelBoot" => lastHandle + 3 <= MaxHandles
    /\ pc' = "channel"
    /\ call' = [NewCall(op) EXCEPT !.step = 1]
    /\ ret' = RetNone
    /\ UNCHANGED <<gspVars, queueVars, hw, traceVars>>

\* Where a boot() or free() goes after its current step: on to the next, or
\* out with result r.
AfterStep(goOn, r) ==
    IF goOn /\ call.step < Len(StepsOf(call.op))
    THEN /\ pc' = "channel"
         /\ ret' = RetNone
    ELSE /\ pc' = "done"
         /\ ret' = RetBool(r)

\* A step that touches only the channel object: a handle from nextHandle, a
\* buffer allocation (ok: it succeeds), the release of everything.
channelLocalStep(ok) ==
    LET st == StepsOf(call.op)[call.step]
        h == NextHandle(lastHandle)
    IN  /\ pc = "channel"
        /\ st.kind \in {"handle", "alloc", "release"}
        /\ st.kind # "alloc" => ok
        /\ IF st.kind = "handle"
           THEN /\ lastHandle' = h
                /\ handles' = Append(handles, h)
                /\ channel' = IF st.what = "hSubDevice" THEN [channel EXCEPT !.hSubDevice = h]
                               ELSE IF st.what = "hChannel" THEN [channel EXCEPT !.hChannel = h]
                               ELSE channel
                /\ call' = [call EXCEPT !.step = @ + 1, !.h = h]
           ELSE /\ UNCHANGED <<lastHandle, handles>>
                /\ call' = [call EXCEPT !.step = @ + 1]
                /\ channel' =
                       IF st.kind = "release" THEN NewChannel
                       ELSE IF ~ok THEN channel
                       ELSE IF st.what = "gpfifoRing"
                            THEN [channel EXCEPT !.gpfifoRing = TRUE, !.entries = <<>>,
                                                 !.put0 = channel.put, !.done = <<>>]
                       ELSE [channel EXCEPT !.userd = TRUE, !.doorbell = 0, !.rung = FALSE]
        /\ AfterStep(ok /\ st.kind # "release", st.kind = "release")
        /\ UNCHANGED <<gspVars, queuePtrs, ring, vaSpace, radix3, workers, hw, traceVars>>

\* The handle a step's RM call names.
StepHandle(what) ==
    IF what = "hSubDevice" THEN channel.hSubDevice
    ELSE IF what = "hChannel" THEN channel.hChannel
    ELSE call.h

\* The parent handle a step's RM call names: hSubDevice for the channel,
\* hDevice (which the channel was created with, 0 here) for the others.
StepParent(what) == IF what = "hChannel" THEN channel.hSubDevice ELSE 0

\* A step that is an RM call: rmAlloc, or the rmFree that free() makes for a
\* handle that is not 0.
channelRmStep(mallocOk) ==
    LET st == StepsOf(call.op)[call.step]
        fn == IF st.kind = "rmAlloc" THEN "GSP_RM_ALLOC" ELSE "GSP_RM_FREE"
        size == RpcHeaderSize + (IF st.kind = "rmAlloc" THEN 20 + st.size ELSE st.size)
        skipped == st.kind = "rmFree" /\ StepHandle(st.what) = 0
        sent == ~skipped /\ RpcAllowed(gspReady, fn) /\ mallocOk
        result == sent /\ ~EnqueueRefused(size)
    IN  /\ pc = "channel"
        /\ st.kind \in {"rmAlloc", "rmFree"}
        /\ skipped => mallocOk
        /\ IF sent THEN enqueueCommand(<<fn, StepParent(st.what), StepHandle(st.what)>>, size)
           ELSE /\ ring' = IF ring.traced /\ st.kind = "rmFree" /\ ~skipped
                           THEN [ring EXCEPT !.unsentFrees = @ + 1]
                           ELSE ring
                /\ UNCHANGED <<queuePtrs, extVars, hw, regLog>>
        /\ call' = [call EXCEPT !.step = @ + 1]
        /\ AfterStep(result \/ ~st.fatal, result)
        /\ UNCHANGED <<gspVars, stages, strategies>>

\* A submit whose IOLockLock never waits.
LockFreeAlways(holder) == TRUE

\* IOLockLock returns once no thread holds the lock.
LockFree(holder) == holder = 0

\* A submit without the fence between the entry and the doorbell.
SubmitStepsNoFence ==
    <<"lock", "address", "length", "flags", "put", "doorbell", "fence", "unlock">>

\* NVDAALChannel::submit in statement order.
SubmitSteps ==
    <<"lock", "address", "length", "flags", "fence", "put", "doorbell", "fence", "unlock">>

\* The GPU-visible memory after one store has arrived.
Arrive(c, store) ==
    IF store.what = "doorbell"
    THEN [c EXCEPT !.doorbell = store.val, !.rung = TRUE]
    ELSE LET old == IF store.slot \in DOMAIN c.entries THEN c.entries[store.slot]
                    ELSE [address |-> 0, length |-> 0, flags |-> 0]
             new == IF store.what = "address" THEN [old EXCEPT !.address = store.val]
                    ELSE IF store.what = "length" THEN [old EXCEPT !.length = store.val]
                    ELSE [old EXCEPT !.flags = store.val]
         IN  [c EXCEPT !.entries =
                 [x \in DOMAIN c.entries \cup {store.slot} |->
                     IF x = store.slot THEN new ELSE c.entries[x]]]

\* Thread w enters submit(pbGpuAddr, pbLength).  The call's arguments are its
\* number, so that entries tell their writer.
enterSubmit(w) ==
    /\ pc = "idle"
    /\ workers[w] = Outside
    /\ channel.started < MaxSubmits
    /\ workers' = [workers EXCEPT ![w] = [Outside EXCEPT !.at = 1, !.id = channel.started + 1]]
    /\ channel' = [channel EXCEPT !.started = @ + 1]
    /\ UNCHANGED <<gspVars, queuePtrs, ring, vaSpace, radix3, lastHandle, handles, hw, pc, call,
                   traceVars, ret>>

\* submit on a channel that has its ring.
submitCall(w) == channel.gpfifoRing /\ enterSubmit(w)

\* Thread w executes its next statement of submit.
submitStep(w) ==
    LET me == workers[w]
        what == SubmitSteps[me.at]
        store(f, v) == [what |-> f, slot |-> channel.put, val |-> v]
        next == [me EXCEPT !.at = @ + 1]
    IN  /\ me.at >= 1
        /\ what = "lock" => LockFree(channel.lock)
        /\ what = "fence" => me.pending = <<>>
        /\ workers' = [workers EXCEPT ![w] =
               CASE what = "address" -> [next EXCEPT !.slot = channel.put,
                                                     !.pending = Append(@, store("address", me.id))]
                 [] what = "length" -> [next EXCEPT !.pending = Append(@, store("length", me.id))]
                 [] what = "flags" -> [next EXCEPT !.pending = Append(@, store("flags", 1))]
                 [] what = "doorbell" ->
                        IF channel.userd
                        THEN [next EXCEPT !.rang = channel.put,
                                          !.pending = Append(@, store("doorbell", channel.put))]
                        ELSE next
                 [] what = "unlock" -> Outside
                 [] OTHER -> next]
        /\ channel' =
               CASE what = "lock" -> [channel EXCEPT !.lock = w]
                 [] what = "put" -> [channel EXCEPT !.put = (@ + 1) % ringSize]
                 [] what = "unlock" ->
                        [channel EXCEPT !.lock = 0,
                                        !.done = Append(@, [id |-> me.id, slot |-> me.slot])]
                 [] OTHER -> channel
        /\ UNCHANGED <<gspVars, queuePtrs, ring, vaSpace, radix3, lastHandle, handles, hw, pc, call,
                       traceVars, ret>>

\* One of thread w's stores to the ring or to UserD reaches the GPU.
drain(w, i) ==
    /\ i \in 1..Len(workers[w].pending)
    /\ channel' = Arrive(channel, workers[w].pending[i])
    /\ workers' = [workers EXCEPT ![w].pending =
           [k \in 1..(Len(@) - 1) |-> IF k < i THEN @[k] ELSE @[k + 1]]]
    /\ UNCHANGED <<gspVars, queuePtrs, ring, vaSpace, radix3, lastHandle, handles, hw, pc, call,
                   traceVars, ret>>

\* A controller whose GSP answers, and either a new channel or one that has
\* been booted and has taken ringSize - 1 submits.
UsedChannel ==
    [NewChannel EXCEPT !.hSubDevice = 1, !.hChannel = 3, !.gpfifoRing = TRUE, !.userd = TRUE,
                       !.put = ringSize - 1, !.put0 = ringSize - 1,
                       !.doorbell = ringSize - 1, !.rung = TRUE]

ChanInit ==
    /\ initialized = TRUE
    /\ gspReady = TRUE
    /\ mmioBase = TRUE
    /\ mem = [b \in Buffers |-> b \in {"cmdQueueMem", "statQueueMem", "wprMetaMem"}]
    /\ booterSize = "none"
    /\ vbios = "none"
    /\ fwsecInfo = NoFwsecInfo
    /\ wprMeta = "zero"
    /\ cmdQueueHead = 0
    /\ ring = EmptyRing
    /\ vaSpace = NewVASpace
    /\ radix3 = NoRadix3
    /\ dma = NoDma
    /\ workers = [w \in Workers |-> Outside]
    /\ \/ /\ channel = NewChannel
          /\ lastHandle = 0
          /\ handles = <<>>
          /\ rpcSeqNum = 0
          /\ cmdQueueTail = 0
       \/ /\ channel = UsedChannel
          /\ lastHandle = 3
          /\ handles = <<1, 2, 3>>
          /\ rpcSeqNum = 3
          /\ cmdQueueTail = 768
    /\ hw = [wpr2En |-> TRUE, mailbox0 |-> "GSP_INIT_DONE", riscvActive |-> TRUE,
             cmdTail |-> cmdQueueTail, wpr2HiRest |-> 0, wpr2Lo |-> 0]
    /\ pc = "idle"
    /\ call = NoCall
    /\ stages = <<>>
    /\ strategies = <<>>
    /\ regLog = <<>>
    /\ ret = RetNone
    /\ bootedSinceInit = TRUE

ChanNext ==
    \/ \E op \in {"channelBoot", "channelFree"} : channelCall(op)
    \/ \E ok \in BOOLEAN : channelLocalStep(ok)
    \/ \E mallocOk \in BOOLEAN : channelRmStep(mallocOk)
    \/ \E w \in Workers : submitCall(w)
    \/ \E w \in Workers : submitStep(w)
    \/ \E w \in Workers, i \in 1..3 : drain(w, i)
    \/ return

ChanSpec == ChanInit /\ [][ChanNext]_vars

\* boot() and free() of a channel whose RM messages are kept in the ring.
TeardownNext ==
    \/ \E op \in {"channelBoot", "channelFree"} : channelCall(op)
    \/ \E ok \in BOOLEAN : channelLocalStep(ok)
    \/ \E mallocOk \in BOOLEAN : channelRmStep(mallocOk)
    \/ return

TeardownSpec == RingInit /\ [][TeardownNext]_vars

\* The store gpfifoRing[put].address = ... of thread w while gpfifoRing is
\* null faults instead of landing somewhere: the thread goes no further and
\* keeps the lock.  (submitStep is the store that lands.)
nullStore(w) ==
    /\ workers[w].at >= 1
    /\ SubmitSteps[workers[w].at] = "address"
    /\ ~channel.gpfifoRing
    /\ workers' = [workers EXCEPT ![w].at = 0 - 1]
    /\ UNCHANGED <<gspVars, queuePtrs, ring, vaSpace, radix3, lastHandle, handles, channel, hw,
                   pc, call, traceVars, ret>>

\* The GPU fetches every entry the doorbell has announced.
gpuFetches ==
    /\ channel.rung
    /\ channel.gpGet # channel.doorbell
    /\ channel' = [channel EXCEPT !.gpGet = channel.doorbell]
    /\ UNCHANGED <<gspVars, queuePtrs, ring, vaSpace, radix3, lastHandle, handles, workers, hw,
                   pc, call, traceVars, ret>>

\* submit on a channel at any point of its life, and the GPU fetching.
FifoNext ==
    \/ \E w \in Workers : enterSubmit(w)
    \/ \E w \in Workers : submitStep(w)
    \/ \E w \in Workers : nullStore(w)
    \/ \E w \in Workers, i \in 1..3 : drain(w, i)
    \/ gpuFetches

FifoSpec == ChanInit /\ [][FifoNext]_vars

\* ============================================================ VA space
\* NVDAALVASpace::map on the bump allocator.  Addresses are 64-bit: they are
\* kept as two limbs (Wide) and the arithmetic below is limb-wise.

\* Most mappings one run hands out.
MaxMaps == 3

WAdd(x, y) == Wide(x.hi + y.hi + (x.lo + y.lo) \div 2^20, (x.lo + y.lo) % 2^20)

WLess(x, y) == x.hi < y.hi \/ (x.hi = y.hi /\ x.lo < y.lo)

\* x - 1 for x >= 1.
WPred(x) == IF x.lo > 0 THEN Wide(x.hi, x.lo - 1) ELSE Wide(x.hi - 1, 2^20 - 1)

\* u & ~v on one limb.
RECURSIVE BitAndNot(_, _)
BitAndNot(u, v) ==
    IF u = 0 THEN 0
    ELSE (IF u % 2 = 1 /\ v % 2 = 0 THEN 1 ELSE 0) + 2 * BitAndNot(u \div 2, v \div 2)

\* A map that hands out the allocator position as it is.
AlignedVaNoRound(cur, alignment) == cur

\* (currentVaOffset + (alignment - 1)) & ~(alignment - 1) in 64 bits: with
\* alignment 0 the mask ~(0 - 1) is 0.
AlignedVa(cur, alignment) ==
    IF alignment = Wide(0, 0) THEN Wide(0, 0)
    ELSE LET m == WPred(alignment)
             sum == WAdd(cur, m)
         IN  Wide(BitAndNot(sum.hi, m.hi), BitAndNot(sum.lo, m.lo))

\* mem->getLength() of the descriptors mapped: 100 bytes, a page, 512 GiB.
MapSizes == {Wide(0, 100), Wide(0, 4096), Wide(2^19, 0)}

\* Alignments requested: 4 KiB, 64 KiB, 2 MiB, and 0 and 3.
MapAlignments ==
    {Wide(0, 4096), Wide(0, 65536), Wide(2, 0), Wide(0, 0), Wide(0, 3)}

\* map(mem, alignment): memOk is mem being non-null.  The call returns the
\* address in call.va, 0 when it refuses; ret tells whether it is non-zero.
vaMap(memOk, size, alignment) ==
    LET alignedVa == AlignedVa(vaSpace.currentVaOffset, alignment)
        fits == memOk /\ ~WLess(vaLimit, WAdd(alignedVa, size))
    IN  /\ pc = "idle"
        /\ fits => Len(vaSpace.maps) < MaxMaps
        /\ FinishWith([NewCall("map") EXCEPT
                           !.va = IF fits THEN alignedVa ELSE Wide(0, 0),
                           !.alignment = alignment],
                      RetBool(fits /\ alignedVa # Wide(0, 0)))
        /\ vaSpace' = IF ~fits THEN vaSpace
                      ELSE [currentVaOffset |-> WAdd(alignedVa, size),
                            maps |-> Append(vaSpace.maps,
                                            [va |-> alignedVa, size |-> size,
                                             alignment |-> alignment])]
        /\ UNCHANGED <<gspVars, queuePtrs, ring, chanVars, radix3, hw, traceVars>>

VaNext ==
    \/ \E memOk \in BOOLEAN, size \in MapSizes, alignment \in MapAlignments :
           vaMap(memOk, size, alignment)
    \/ return

VaSpec == Init /\ [][VaNext]_vars

\* ------------------------------------------------------------ radix3 table
\* Entries of one page of 64-bit words.
EntriesPerPage == 512

\* Firmware sizes handed to the builder, in bytes: one byte, one page, one page
\* and a byte, the sizes around one full leaf table (512 pages), the 63 MiB
\* image, the sizes around one full L1 table (512 x 512 pages), and 2^20 pages.
RadixSizes == {Wide(0, 1), Wide(0, 4096), Wide(0, 4097), Wide(2, 0), Wide(2, 1),
               Wide(63, 0), Wide(1024, 0), Wide(1024, 1), Wide(4096, 0)}

\* Where the pages of the firmware buffer lie: page i at base + stride * i, in
\* pages; hole is a page for which getPhysicalSegment returns 0 (-1: none).
Firmwares == [base : {2^23}, stride : {1, 3}, hole : {-1, 0, 700}]

\* Physical addresses are kept in units of GSP_PAGE_SIZE bytes: every address
\* the builder forms is a multiple of it.  getPhysicalSegment(i * GSP_PAGE_SIZE).
PagePhys(fw, i) == IF i = fw.hole THEN 0 ELSE fw.base + fw.stride * i

\* (size + GSP_PAGE_SIZE - 1) / GSP_PAGE_SIZE on a 64-bit size.
NumPages(size) ==
    LET s == WAdd(size, Wide(0, 4095))
    IN  s.hi * (2^20 \div 4096) + s.lo \div 4096

NumTablesFloor(n) == n \div EntriesPerPage

\* (n + 511) / 512: the tables of one level that hold n entries.
NumTables(n) == (n + 511) \div EntriesPerPage

\* addr | 1 for a page-aligned addr: the address and the valid bit.
Entry(addr) == [addr |-> addr, valid |-> TRUE]

\* A word the memset left.
ZeroEntry == [addr |-> 0, valid |-> FALSE]

\* One fill loop: count words from word index at on; word at + i gets
\* (addr + i * GSP_PAGE_SIZE) | 1, or pagePhys of firmware page i | 1 in the
\* leaf loop.
Fill(at, count, addr, leaf) == [at |-> at, count |-> count, addr |-> addr, leaf |-> leaf]

\* The word at index x of the table buffer once the first k loops have run on
\* the zeroed buffer: the last loop that stored to x decides.
RECURSIVE WordAfter(_, _, _)
WordAfter(t, x, k) ==
    IF k = 0 THEN ZeroEntry
    ELSE LET f == t.stores[k]
         IN  IF x >= f.at /\ x - f.at < f.count
             THEN Entry(IF f.leaf THEN PagePhys(t.fw, x - f.at) ELSE f.addr + (x - f.at))
             ELSE WordAfter(t, x, k - 1)

WordAt(t, x) == WordAfter(t, x, Len(t.stores))

\* buildRadix3PageTable(firmware, size) with the firmware buffer in place (its
\* caller parseElfFirmware has just allocated it): phys is the page the new
\* table buffer lies at, fw the pages of firmwareMem.
buildRadix3PageTable(size, allocOk, phys, fw) ==
    LET numPages == NumPages(size)
        numL2Tables == NumTables(numPages)
        numL1Tables == NumTables(numL2Tables)
        tablePages == 1 + numL1Tables + numL2Tables
        l1Table == EntriesPerPage
        l2Table == l1Table + numL1Tables * EntriesPerPage
        l1Phys == phys + 1
        l2Phys == l1Phys + numL1Tables
        filled == IF fw.hole >= 0 /\ fw.hole < numPages THEN fw.hole ELSE numPages
    IN  /\ pc = "idle"
        /\ RoomFor(1)
        /\ FinishWith([NewCall("buildRadix3PageTable") EXCEPT !.va = size],
                      RetBool(allocOk /\ filled = numPages))
        /\ dma' = AllocDmaBuffer(dma, "radix3Mem", allocOk)
        /\ mem' = [mem EXCEPT !["radix3Mem"] = allocOk]
        /\ radix3' = IF ~allocOk THEN NoRadix3
                     ELSE [pages |-> tablePages, phys |-> phys, fw |-> fw,
                           stores |-> <<Fill(0, numL1Tables, l1Phys, FALSE),
                                        Fill(l1Table, numL2Tables, l2Phys, FALSE),
                                        Fill(l2Table, filled, 0, TRUE)>>]
        /\ UNCHANGED <<initialized, gspReady, mmioBase, booterSize, vbios, fwsecInfo,
                       wprMeta, bootedSinceInit, queuePtrs, ring, vaSpace, chanVars, hw,
                       traceVars>>

RadixNext ==
    \/ \E size \in RadixSizes, allocOk \in BOOLEAN, phys \in {2^8, 2^22},
          fw \in Firmwares : buildRadix3PageTable(size, allocOk, phys, fw)
    \/ return

RadixSpec == Init /\ [][RadixNext]_vars

\* ------------------------------------------------------ allocation ledger
\* The controller after its constructor, every allocation followed.
DmaInit ==
    /\ initialized = FALSE
    /\ gspReady = FALSE
    /\ mmioBase = FALSE
    /\ mem = NoBuffers
    /\ dma = [NoDma EXCEPT !.traced = TRUE]
    /\ booterSize = "none"
    /\ vbios = "none"
    /\ fwsecInfo = NoFwsecInfo
    /\ wprMeta = "zero"
    /\ rpcSeqNum = 0
    /\ cmdQueueHead = 0
    /\ cmdQueueTail = 0
    /\ ring = EmptyRing
    /\ radix3 = NoRadix3
    /\ vaSpace = NewVASpace
    /\ lastHandle = 0
    /\ handles = <<>>
    /\ channel = NewChannel
    /\ workers = [w \in Workers |-> Outside]
    /\ hw = [wpr2En |-> FALSE, mailbox0 |-> "OTHER", riscvActive |-> FALSE, cmdTail |-> 0,
             wpr2HiRest |-> 0, wpr2Lo |-> 0]
    /\ pc = "idle"
    /\ call = NoCall
    /\ stages = <<>>
    /\ strategies = <<>>
    /\ regLog = <<>>
    /\ ret = RetNone
    /\ bootedSinceInit = FALSE

DmaNext ==
    \/ \E nOk \in 0..3 : init(nOk)
    \/ free
    \/ \E allocOk \in BOOLEAN : loadBootloader(allocOk)
    \/ \E allocOk \in BOOLEAN : loadBooterLoad("ok", allocOk)
    \/ \E allocOk \in BOOLEAN : loadVbios("fwsec", allocOk)
    \/ \E allocOk, images \in BOOLEAN : readVbiosFromBar("fwsec", allocOk, images)
    \/ \E allocOk \in BOOLEAN, fw \in Firmwares :
           buildRadix3PageTable(Wide(0, 4097), allocOk, 2^8, fw)
    \/ return

DmaSpec == DmaInit /\ [][DmaNext]_vars

\* ------------------------------------------------------------- WPR2 check
\* Contents of WPR2_ADDR_HI below its bit 31 and of WPR2_ADDR_LO tried: zero,
\* bits under the address field only, an address.
Wpr2HiRests == {0, 8, 6 * 2^20}
Wpr2Los == {0, 2^20, 2^30 + 16}

\* checkWpr2Setup called on its own.
checkWpr2 ==
    /\ pc = "idle"
    /\ mmioBase
    /\ Finish("checkWpr2Setup", RetBool(checkWpr2Setup(hw.wpr2En)))
    /\ UNCHANGED <<gspVars, queueVars, hw, traceVars>>

\* Hi & 0xFFFFFFF0, as the field in bits 31:4.
Wpr2HiField(h) == (IF h.wpr2En THEN 2^27 ELSE 0) + h.wpr2HiRest \div 16

GpuIsWpr2ConfiguredByAnyRegister(h) == Wpr2HiField(h) # 0 \/ h.wpr2Lo # 0

\* GpuIsWpr2Configured: (Wpr2Hi & 0xFFFFFFF0) != 0.
GpuIsWpr2Configured(h) == Wpr2HiField(h) # 0

\* *Wpr2Hi of GpuReadWpr2: ((UINT64)(Hi & 0xFFFFFFF0)) << 8.
GpuReadWpr2Hi(h) == Wide(Wpr2HiField(h) \div 2^8, (Wpr2HiField(h) % 2^8) * 2^12)

\* GpuIsWpr2Configured called on its own.
gpuIsWpr2Configured ==
    /\ pc = "idle"
    /\ Finish("GpuIsWpr2Configured", RetBool(GpuIsWpr2Configured(hw)))
    /\ UNCHANGED <<gspVars, queueVars, hw, traceVars>>

\* ExecuteFwsecFrts of the EFI driver; the result is whether it returns
\* EFI_SUCCESS.  gfwOk: GpuWaitGfwBoot succeeds; stepsOk: steps 3 to 7 (VBIOS
\* parse, FWSEC extraction and patch, Falcon init and reset) succeed; frtsErr:
\* the FRTS error code read in step 10 is not FRTS_ERR_NONE; en, rest and lo are
\* the WPR2 registers as step 10 finds them.
ExecuteFwsecFrts(gfwOk, stepsOk, frtsErr, en, rest, lo) ==
    LET early == gfwOk /\ GpuIsWpr2Configured(hw)
        late == [hw EXCEPT !.wpr2En = en, !.wpr2HiRest = rest, !.wpr2Lo = lo]
        checked == gfwOk /\ ~early /\ stepsOk /\ ~frtsErr
    IN  /\ pc = "idle"
        /\ Finish("ExecuteFwsecFrts",
                  RetBool(early \/ (checked /\ GpuReadWpr2Hi(late) # Wide(0, 0))))
        /\ hw' = IF checked THEN late ELSE hw
        /\ UNCHANGED <<gspVars, queueVars, traceVars>>

\* An initialised controller with a parsed VBIOS, the WPR2 registers holding
\* any of the contents tried.
Wpr2Init ==
    /\ initialized = TRUE
    /\ gspReady = FALSE
    /\ mmioBase = TRUE
    /\ mem = [b \in Buffers |->
                 b \in {"cmdQueueMem", "statQueueMem", "wprMetaMem", "fwsecMem"}]
    /\ booterSize = "none"
    /\ vbios = "fwsec"
    /\ fwsecInfo = parseVbios("fwsec", NoFwsecInfo).info
    /\ wprMeta = "zero"
    /\ rpcSeqNum = 0
    /\ cmdQueueHead = 0
    /\ cmdQueueTail = 0
    /\ ring = EmptyRing
    /\ ExtInit
    /\ hw \in [wpr2En : BOOLEAN, wpr2HiRest : Wpr2HiRests, wpr2Lo : Wpr2Los,
               mailbox0 : {"OTHER"}, riscvActive : {FALSE}, cmdTail : {0}]
    /\ pc = "idle"
    /\ call = NoCall
    /\ stages = <<>>
    /\ strategies = <<>>
    /\ regLog = <<>>
    /\ ret = RetNone
    /\ bootedSinceInit = FALSE

Wpr2Next ==
    \/ checkWpr2
    \/ executeFwsecFrts
    \/ \E halted, retcodeZero, carved \in BOOLEAN : fwsecViaBrom(halted, retcodeZero, carved)
    \/ \E halted, carved \in BOOLEAN : fwsecViaDma(halted, carved)
    \/ \E mallocOk, halted, carved \in BOOLEAN : fwsecViaPio(mallocOk, halted, carved)
    \/ gpuIsWpr2Configured
    \/ \E gfwOk, stepsOk, frtsErr, en \in BOOLEAN, rest \in Wpr2HiRests, lo \in Wpr2Los :
           ExecuteFwsecFrts(gfwOk, stepsOk, frtsErr, en, rest, lo)
    \/ return

Wpr2Spec == Wpr2Init /\ [][Wpr2Next]_vars

\* ------------------------------------------------------- PMU lookup table
\* Where the pattern search starts.
ScanStart == 36864

\* Offsets at which an image may hold a table with the 01 06 06 signature, an
\* entry count in 1..32 and a FWSEC entry: below the start of the search, at
\* it, two bytes after it, and 128 bytes before the end of the image.
TableOffsets == {ScanStart - 4096, ScanStart, ScanStart + 2, VbiosSize - 128}

\* The table a BIT token leads to in the images tried.
TokenTable == ScanStart - 8192

\* Images with a BIT header.  tok50: no token 0x50, one whose offsets hold no
\* table ("miss"), one with an offset of a table ("hit"); tok70: no token 0x70,
\* one that points at bytes that do not look like a table ("junk"), one that
\* points at a table; tables: where the image holds further tables.
PmuImages == [tok50 : {"none", "miss", "hit"}, tok70 : {"none", "junk", "hit"},
              tables : SUBSET TableOffsets]

\* The pattern search of parseVbios over tables: offsets ScanStart,
\* ScanStart + 4, ... below size - 0x100; the first hit, or 0.
PatternSearch(tables, size) ==
    LET hits == {t \in tables : t >= ScanStart /\ t < size - 256 /\ (t - ScanStart) % 4 = 0}
    IN  IF hits = {} THEN 0 ELSE CHOOSE t \in hits : \A u \in hits : t <= u

\* Steps 4 to 5 of parseVbios on an image with a BIT header: the table the
\* entry walk runs on (0: none, the info is marked invalid) and whether the
\* pattern search ran.
FindPmuTable(img) ==
    LET byToken50 == IF img.tok50 = "hit" THEN TokenTable ELSE 0
        byToken70 == IF byToken50 = 0 /\ img.tok70 # "none"
                     THEN (IF img.tok70 = "hit" THEN TokenTable ELSE 0)
                     ELSE byToken50
        pointed == byToken50 # 0 \/ img.tok70 # "none"
        looksInvalid == pointed /\ byToken70 = 0
        searched == PatternSearch(img.tables, VbiosSize)
    IN  IF ~pointed THEN [table |-> 0, scanned |-> FALSE]
        ELSE IF looksInvalid THEN [table |-> searched, scanned |-> TRUE]
        ELSE [table |-> byToken70, scanned |-> FALSE]

\* SearchPmuTableByPattern of the parser test tool: the same walk, up to
\* gRomSize - 32.
SearchPmuTableByPattern(tables, size) ==
    LET hits == {t \in tables : t >= ScanStart /\ t < size - 32 /\ (t - ScanStart) % 4 = 0}
    IN  IF hits = {} THEN 0 ELSE CHOOSE t \in hits : \A u \in hits : t <= u

\* main of the parser test tool: token 0x50, then token 0x70, then the
\* pattern search when pmuTableOffset is still 0.
ToolFindPmuTable(img) ==
    LET byToken == IF img.tok50 = "hit" \/ img.tok70 = "hit" THEN TokenTable ELSE 0
    IN  IF byToken # 0 THEN [table |-> byToken, scanned |-> FALSE]
        ELSE [table |-> SearchPmuTableByPattern(img.tables, VbiosSize), scanned |-> TRUE]

\* parseVbios, or the tool, run on img; the call returns whether it has a
\* table to take the FWSEC entry from.
findPmuTable(op, img) ==
    LET r == IF op = "parseVbios" THEN FindPmuTable(img) ELSE ToolFindPmuTable(img)
    IN  /\ pc = "idle"
        /\ FinishWith([NewCall(op) EXCEPT !.img = img, !.table = r.table,
                                          !.scanned = r.scanned],
                      RetBool(r.table # 0))
        /\ UNCHANGED <<gspVars, queueVars, hw, traceVars>>

PmuNext ==
    \/ \E op \in {"parseVbios", "main"}, img \in PmuImages : findPmuTable(op, img)
    \/ return

PmuSpec == Init /\ [][PmuNext]_vars

\* ================================================================== claims
BootDone == pc = "done" /\ call.op = "boot"

\* Position of the first occurrence of w in regLog, 0 when absent.
RECURSIVE FirstWrite(_, _)
FirstWrite(w, k) ==
    IF k > Len(regLog) THEN 0
    ELSE IF regLog[k] = w THEN k
    ELSE FirstWrite(w, k + 1)

Written(w) == FirstWrite(w, 1) # 0

RpcOps == {"rmAlloc", "rmControl", "rmFree", "setRegistry", "sendSystemInfo"}

\* C2: while gspReady is false a sendRpc for anything but GSP_SET_SYSTEM_INFO
\* returns false and leaves the command-queue tail, the sequence counter and
\* the hardware tail register as they were; only sendSystemInfo can change
\* them in that state.
C2_GateWhileNotReady ==
    [][(pc = "idle" /\ call'.op \in RpcOps /\ ~gspReady) =>
          /\ (call'.fn # "GSP_SET_SYSTEM_INFO") =>
                 /\ ret' = RetBool(FALSE)
                 /\ cmdQueueTail' = cmdQueueTail
                 /\ rpcSeqNum' = rpcSeqNum
                 /\ hw'.cmdTail = hw.cmdTail
          /\ (cmdQueueTail' # cmdQueueTail \/ rpcSeqNum' # rpcSeqNum
                  \/ hw'.cmdTail # hw.cmdTail) => call'.op = "sendSystemInfo"]_vars

\* An rmAlloc refused before the ready state, on an initialised controller on
\* whose queue a system-info message has already been enqueued.
C2_Witness ==
    /\ pc = "done"
    /\ call.op = "rmAlloc"
    /\ ~call.readyAtCall
    /\ ret = RetBool(FALSE)
    /\ initialized
    /\ ~bootedSinceInit
    /\ rpcSeqNum = 1

\* C3 as stated: gspReady is true only if a bootEx call has returned 0 since
\* the last init.
C3_ReadyOnlyAfterBoot == gspReady => bootedSinceInit

\* C4: gspReady goes from false to true only in waitForInitDone on a MAILBOX0
\* read equal to INIT_DONE or in waitRpcResponse on a dequeued message with
\* that function id, and from true to false only where free() runs.
C4_ReadyTransitions ==
    [][/\ (~gspReady /\ gspReady') =>
              /\ call'.op \in {"waitForInitDone", "waitRpcResponse"}
              /\ "GSP_INIT_DONE" \in call'.seen
       /\ (gspReady /\ ~gspReady') => call'.freed]_vars

\* A waitRpcResponse that timed out while an asynchronous INIT_DONE event
\* made the controller ready.
C4_Witness ==
    /\ pc = "done"
    /\ call.op = "waitRpcResponse"
    /\ ~call.readyAtCall
    /\ gspReady
    /\ ret = RetBool(FALSE)

\* C5: boot() returns true only if startRiscv read CPUCTL.ACTIVE in that call;
\* it is true exactly when bootEx returned 0.
C5_BootTrueOnlyIfActive ==
    BootDone =>
        /\ ret.b => call.activeSeen
        /\ ret.b <=> (ret.i = 0)

\* A boot that returned true although FWSEC-FRTS and booter_load had failed.
C5_Witness ==
    /\ BootDone
    /\ ret.b
    /\ call.activeSeen
    /\ {"FWSEC", "BOOTER"} \subseteq call.failed

\* C6: the stages entered by a bootEx call are an initial part of the fixed
\* order, none twice, and the START write to the RISC-V CPUCTL comes after
\* setupWprMeta has filled the WPR metadata page.
C6_StageOrder ==
    (call.op = "boot") =>
        /\ Len(stages) <= Len(StageOrder)
        /\ \A k \in 1..Len(stages) : stages[k] = StageOrder[k]
        /\ Written("PRISCV_CPUCTL=START") =>
               /\ Written("wprMeta=WPR2")
               /\ FirstWrite("wprMeta=WPR2", 1) < FirstWrite("PRISCV_CPUCTL=START", 1)
               /\ wprMeta = "WPR2"

\* A boot that went through all six stages and started the RISC-V core.
C6_Witness ==
    /\ BootDone
    /\ stages = StageOrder
    /\ Written("PRISCV_CPUCTL=START")
    /\ call.skipped = {}

\* C7: executeFwsecFrts returns true only if a WPR2 check of that call read
\* the enabled bit.
C7_TrueOnlyOnWpr2 == (call.fwDone /\ call.fwRet) => call.wpr2Seen

\* executeFwsecFrts returned true after a strategy ran on a Falcon with WPR2
\* disabled at entry.
C7_Witness ==
    /\ call.fwDone
    /\ call.fwRet
    /\ ~call.wpr2AtEntry
    /\ strategies # <<>>

StrategyOrder == <<"BROM", "DMA", "PIO">>

StrategyRank(name) == CHOOSE k \in 1..3 : StrategyOrder[k] = name

\* C8 as stated: strategies start in the order Boot ROM, DMA, PIO, each at
\* most once, and a strategy after the first starts only with WPR2 still not
\* enabled.
C8_LaterOnlyIfNotEnabled ==
    /\ \A j, k \in 1..Len(strategies) :
           j < k => StrategyRank(strategies[j].name) < StrategyRank(strategies[k].name)
    /\ \A k \in 2..Len(strategies) : ~strategies[k].wpr2AtStart

\* C9 as stated: the first register write of every strategy attempt is the
\* GSP Falcon reset.
C9_StrategyBeginsWithReset ==
    \A k \in 1..Len(strategies) :
        /\ strategies[k].first <= Len(regLog)
        /\ regLog[strategies[k].first] = "PGSP_FALCON_CPUCTL=0"

\* C10: with WPR2 enabled at entry executeFwsecFrts returns true, starts no
\* strategy, writes no register and does not parse the VBIOS.
C10_EarlyReturn ==
    (call.fwDone /\ call.wpr2AtEntry) =>
        /\ call.fwRet
        /\ strategies = <<>>
        /\ call.fwLogEnd = call.fwLogStart
        /\ ~call.parsed

\* executeFwsecFrts called with WPR2 enabled on a controller that holds a
\* VBIOS it has not parsed.
C10_Witness ==
    /\ pc = "done"
    /\ call.op = "executeFwsecFrts"
    /\ call.fwDone
    /\ call.wpr2AtEntry
    /\ mem["fwsecMem"]
    /\ ~fwsecInfo.valid

\* C11 as stated: an executeFwsecFrts entered with WPR2 not enabled and no
\* VBIOS loaded goes on to parse a VBIOS instead of returning failure.
C11_Original ==
    (pc = "done" /\ call.fwDone /\ ~call.wpr2AtEntry /\ call.fwNoVbios) => call.parsed

\* C11: executeFwsecFrts entered with WPR2 not enabled and no VBIOS loaded
\* returns false at once: it loads no VBIOS, parses nothing and writes no
\* register.  The BAR0 read is bootEx's: when no VBIOS is loaded its step 2a
\* calls readVbiosFromBar, and with the buffer in place it goes on to
\* executeFwsecFrts.
C11_BarReadIsBootEx ==
    [][/\ (pc = "idle" /\ call'.op = "executeFwsecFrts" /\ ~hw.wpr2En /\ ~mem["fwsecMem"])
           => /\ pc' = "done"
              /\ ret' = RetBool(FALSE)
              /\ ~call'.parsed
              /\ call'.fwLogEnd = call'.fwLogStart
              /\ <<mem, vbios, fwsecInfo>>' = <<mem, vbios, fwsecInfo>>
       /\ (pc = "fwsecStage" /\ ~mem["fwsecMem"] /\ mem'["fwsecMem"])
           => /\ vbios' \in VbiosImages
              /\ pc' = "fwsec"]_vars

\* executeFwsecFrts has returned from a call made with no VBIOS and no WPR2.
C11_Witness ==
    /\ pc = "done"
    /\ call.op = "executeFwsecFrts"
    /\ call.fwDone /\ call.fwNoVbios /\ ~call.wpr2AtEntry
    /\ ret = RetBool(FALSE)

\* bootEx has entered its step 5.
RiscvEntered == \E k \in 1..Len(stages) : stages[k] = "RISCV_START"

DmaTimedOut ==
    /\ pc = "done"
    /\ call.op = "loadFalconUcodeDma"
    /\ \E k \in 1..Len(call.blockPolls) : ~call.blockPolls[k].idle

\* C12: when a block transfer never reports idle within its 1000 polls,
\* loadFalconUcodeDma reports failure and writes neither BOOTVEC nor
\* CPUCTL.STARTCPU.
C12_TimeoutIsTerminal ==
    DmaTimedOut =>
        /\ ~ret.b
        /\ ~Written("PGSP_FALCON_BOOTVEC")
        /\ ~Written("PGSP_FALCON_CPUCTL=STARTCPU")

\* C14: startRiscv does not return true in a call in which a BR_RETCODE other
\* than 0 and 0xbadf5040 was read.
C14_ErrorRetcodeFails ==
    (pc = "done" /\ call.op = "startRiscv" /\ call.retcodeErr) => ~ret.b

\* The running RPC operation got as far as enqueueCommand.
EnqueueCalled == pc = "done" /\ call.op \in RpcOps \cup {"enqueueCommand"} /\ call.size > 0

\* C15: when the free space is smaller than the 256-byte-aligned frame,
\* enqueueCommand stores nothing and changes neither the local tail, the
\* sequence counter nor the tail register, and the sendRpc or RM call that
\* made it returns false.
C15_QueueFullChangesNothing ==
    [][(EnqueueCalled' /\ mem["cmdQueueMem"]
           /\ FreeSpace(cmdQueueHead, cmdQueueTail)
                  < AlignUp(QueueElementHeader + call'.size, 256)) =>
          /\ ret' = RetBool(FALSE)
          /\ <<cmdQueueTail, rpcSeqNum, cmdQueueHead, hw, ring>>'
                 = <<cmdQueueTail, rpcSeqNum, cmdQueueHead, hw, ring>>
          /\ regLog' = <<>>]_vars

\* An rmAlloc that passed the gate and the allocation and found the queue full.
C15_Witness ==
    /\ EnqueueCalled
    /\ call.op = "rmAlloc"
    /\ call.readyAtCall
    /\ mem["cmdQueueMem"]
    /\ FreeSpace(cmdQueueHead, cmdQueueTail) < AlignUp(QueueElementHeader + call.size, 256)
    /\ ret = RetBool(FALSE)
    /\ rpcSeqNum = 2

C19_BadChecksumNotDelivered ==
    (pc = "done" /\ call.op = "waitRpcResponse" /\ ret.b) => ~call.crcBad

\* C20: rmAlloc and rmControl return false when the RM status the GSP reports
\* for the request is not 0.
C20_RmStatusSurfaced ==
    (pc = "done" /\ call.op \in {"rmAlloc", "rmControl"} /\ call.gspStatus # 0) => ~ret.b

\* (16 + s) rounded up to a multiple of 256.
RoundedFrame(s) == (16 + s) + ((256 - ((16 + s) % 256)) % 256)

\* C17: the local command-queue tail stays a multiple of 256 below the queue
\* capacity, and a successful enqueue of s bytes moves it by (16 + s) rounded
\* up to a multiple of 256, modulo the capacity; a refused one leaves it.
C17_TailArithmetic ==
    [][/\ cmdQueueTail' % 256 = 0
       /\ cmdQueueTail' >= 0 /\ cmdQueueTail' < QUEUE_SIZE
       /\ (pc = "idle" /\ call'.op = "enqueueCommand") =>
              cmdQueueTail' = IF ret'.b
                              THEN (cmdQueueTail + RoundedFrame(call'.size)) % QUEUE_SIZE
                              ELSE cmdQueueTail]_vars

\* The second half-queue frame has taken the tail around the end of the
\* buffer, back to offset 0.
C17_Witness ==
    /\ pc = "done"
    /\ call.op = "enqueueCommand"
    /\ ret = RetBool(TRUE)
    /\ rpcSeqNum = 2
    /\ cmdQueueTail = 0

\* C21: the values nextHandle has returned are never zero and strictly
\* increasing, so none is issued twice, also not after a channel has been
\* freed and a new one booted.
C21_HandlesIncrease ==
    /\ \A k \in 1..Len(handles) : handles[k] # 0
    /\ \A k \in 1..(Len(handles) - 1) : handles[k] < handles[k + 1]

\* A channel was booted, freed with its rmFree calls, and a second boot has
\* returned true with three new handles.
C21_Witness ==
    /\ pc = "done"
    /\ call.op = "channelBoot"
    /\ ret = RetBool(TRUE)
    /\ Len(handles) = 6
    /\ rpcSeqNum = 8
    /\ channel.hSubDevice = 4
    /\ channel.hChannel = 6

\* The submit calls that have executed put = (put + 1) % ringSize.
PastPut ==
    Len(channel.done)
    + Cardinality({w \in Workers : \E k \in 1..(workers[w].at - 1) : SubmitSteps[k] = "put"})

RECURSIVE Advance(_, _)
Advance(p, n) == IF n = 0 THEN p ELSE Advance((p + 1) % ringSize, n - 1)

\* C23: concurrent submit calls are serialised: put has advanced by exactly
\* the number of calls that reached the increment, modulo the ring size, and
\* every returned call has a slot of its own that holds the entry it wrote,
\* whole.
C23_SubmitsSerialised ==
    /\ channel.put = Advance(channel.put0, PastPut)
    /\ \A i \in 1..Len(channel.done) :
          /\ channel.done[i].slot \in DOMAIN channel.entries
          /\ channel.entries[channel.done[i].slot] =
                 [address |-> channel.done[i].id, length |-> channel.done[i].id, flags |-> 1]
          /\ \A j \in 1..Len(channel.done) :
                 i # j => channel.done[i].slot # channel.done[j].slot

\* Two calls have returned, the one that was called second having taken the
\* lock first, and put has wrapped around the ring.
C23_Witness ==
    /\ Len(channel.done) = 2
    /\ channel.done[1].id = 2
    /\ channel.put0 = ringSize - 1
    /\ channel.put = 1
    /\ \A w \in Workers : workers[w] = Outside

\* The slots the doorbell has announced since the ring was cleared.
Announced ==
    IF ~channel.rung THEN {}
    ELSE {Advance(channel.put0, k) : k \in {n \in 0..MaxSubmits :
                                              \E m \in (n + 1)..(MaxSubmits + 1) :
                                                  Advance(channel.put0, m) = channel.doorbell}}

\* C24: as the GPU sees memory, every slot the doorbell has announced holds an
\* entry written whole by one call (address, length, flags = 1), and the value
\* a call writes to the doorbell is put after its increment, the slot after
\* the one it wrote.
C24_EntryBeforeDoorbell ==
    /\ \A x \in Announced :
          /\ x \in DOMAIN channel.entries
          /\ channel.entries[x].flags = 1
          /\ channel.entries[x].address # 0
          /\ channel.entries[x].address = channel.entries[x].length
    /\ \A w \in Workers :
          (\E k \in 1..(workers[w].at - 1) : SubmitSteps[k] = "doorbell") /\ channel.userd
              => workers[w].rang = (workers[w].slot + 1) % ringSize

\* The doorbell announces two slots while the second call's doorbell store
\* has only just arrived and the call is still inside submit.
C24_Witness ==
    /\ channel.rung
    /\ channel.doorbell = 1
    /\ channel.put0 = ringSize - 1
    /\ Len(channel.done) = 1
    /\ \E w \in Workers : workers[w].at >= 1 /\ workers[w].rang = 1 /\ workers[w].pending = <<>>

\* x is a multiple of a (a below 2^20 or a multiple of 2^20).
WMultiple(x, a) ==
    IF a = Wide(0, 0) THEN x = Wide(0, 0)
    ELSE IF a.hi = 0 THEN ((x.hi % a.lo) * (2^20 % a.lo) + x.lo) % a.lo = 0
    ELSE x.lo = 0 /\ x.hi % a.hi = 0

PowerOfTwo(a) ==
    \E k \in 0..20 : a = Wide(0, 2^k) \/ a = Wide(2^k, 0)

MapCalled == pc = "idle" /\ pc' = "done" /\ call'.op = "map"

\* What the claim says of one map call: a returned address is a multiple of
\* the alignment inside [vaStart, vaLimit], at the first aligned address at or
\* after the end of the previous mapping and clear of every earlier mapping;
\* a call that returns 0 leaves the allocator where it was.
MapAsClaimed ==
    IF call'.va = Wide(0, 0)
    THEN vaSpace' = vaSpace
    ELSE LET new == vaSpace'.maps[Len(vaSpace'.maps)]
             end == WAdd(new.va, new.size)
         IN  /\ Len(vaSpace'.maps) = Len(vaSpace.maps) + 1
             /\ new.va = call'.va
             /\ WMultiple(new.va, call'.alignment)
             /\ ~WLess(new.va, vaStart)
             /\ ~WLess(vaLimit, end)
             /\ ~WLess(new.va, vaSpace.currentVaOffset)
             /\ WLess(new.va, WAdd(vaSpace.currentVaOffset, call'.alignment))
             /\ vaSpace'.currentVaOffset = end
             /\ \A k \in 1..Len(vaSpace.maps) :
                    ~WLess(new.va, WAdd(vaSpace.maps[k].va, vaSpace.maps[k].size))

\* C25 as stated: every map call, whatever alignment it requests, allocates
\* as claimed.
C25_Original == [][MapCalled => MapAsClaimed]_vars

\* C25, amended: while every alignment requested so far, this call's included,
\* is a power of two, a map call returns a multiple of the alignment inside
\* [vaStart, vaLimit] at the first aligned address at or after the end of the
\* previous mapping, overlapping no earlier mapping, and a call that returns 0
\* leaves the allocator position unchanged.
C25_PowerOfTwoAlignment ==
    [][(/\ MapCalled
        /\ PowerOfTwo(call'.alignment)
        /\ \A k \in 1..Len(vaSpace.maps) : PowerOfTwo(vaSpace.maps[k].alignment))
       => MapAsClaimed]_vars

\* The third mapping was rounded up to 64 KiB past a 100-byte mapping.
C25_Witness ==
    /\ pc = "done"
    /\ call.op = "map"
    /\ Len(vaSpace.maps) = 3
    /\ \A k \in 1..3 : PowerOfTwo(vaSpace.maps[k].alignment)
    /\ vaSpace.maps[2].size = Wide(0, 100)
    /\ vaSpace.maps[3].alignment = Wide(0, 65536)
    /\ call.va = vaSpace.maps[3].va
    /\ WLess(WAdd(vaSpace.maps[2].va, vaSpace.maps[2].size), call.va)

\* C22: the frames written by successive successful enqueues carry the
\* sequence numbers 0, 1, 2, ... in order, one per frame, and rpcSeqNum counts
\* exactly the frames written: a refused enqueue consumes none, no number is
\* shared and none is skipped.
C22_SeqNumsConsecutive ==
    /\ Len(ring.seqs) = rpcSeqNum
    /\ \A k \in 1..Len(ring.seqs) : ring.seqs[k] = k - 1

\* Two frames are in the ring and a third enqueue has just been refused.
C22_Witness ==
    /\ pc = "done"
    /\ call.op = "enqueueCommand"
    /\ mem["cmdQueueMem"]
    /\ ret = RetBool(FALSE)
    /\ ring.seqs = <<0, 1>>
    /\ rpcSeqNum = 2

\* C18: the k-th payload stored in the ring is what the k-th dequeue returns,
\* byte for byte, when the caller's buffer holds it (elemCount x 4096 - 16 is
\* never less than the payload size of a frame enqueueCommand stored).
C18_RoundTrip ==
    \A k \in 1..Len(ring.rcvd) :
        (/\ k <= Len(ring.sent)
         /\ ElemCount(ring.sent[k].size) * 4096 - 16 >= ring.sent[k].size
         /\ ring.rcvd[k].maxSize >= ring.sent[k].size) =>
            /\ ring.rcvd[k].payload = ring.sent[k]
            /\ ring.rcvd[k].size >= ring.sent[k].size


\* ceil(n / 512).
Ceil512(n) == IF n % 512 = 0 THEN n \div 512 ELSE n \div 512 + 1

\* The indices below limit at both ends of every run of 512.
Around(limit) ==
    {i \in {512 * k + d : k \in 0..(limit \div 512), d \in {0, 1, 511}} : i < limit}

\* The firmware size of the running call, in pages.
FirmwarePages ==
    call.va.hi * 256 + (IF call.va.lo % 4096 = 0 THEN call.va.lo \div 4096
                        ELSE call.va.lo \div 4096 + 1)

\* buildRadix3PageTable has returned true.
TableBuilt == pc = "done" /\ call.op = "buildRadix3PageTable" /\ ret.b

\* The table t maps n pages and nothing else: [root][L1 tables][L2 tables],
\* every pointer at the page of the table that holds the words it stands for.
FanOutCovers(t, n) ==
    LET m == Ceil512(n)
        r == Ceil512(m)
        l1 == 512
        l2 == 512 * (1 + r)
        PageOf(x) == t.phys + x \div 512
        Used(x) == x < r \/ (x >= l1 /\ x < l1 + m) \/ (x >= l2 /\ x < l2 + n)
        Rest == {x \in {r, 511, l1 + m, l2 - 1, l2 + n, 512 * t.pages - 1} :
                    x >= 0 /\ x < 512 * t.pages /\ ~Used(x)}
    IN  /\ t.pages = 1 + r + m
        /\ \A i \in Around(n) : WordAt(t, l2 + i) = Entry(PagePhys(t.fw, i))
        /\ \A j \in Around(m) : WordAt(t, l1 + j) = Entry(PageOf(l2 + 512 * j))
        /\ \A k \in Around(r) : WordAt(t, k) = Entry(PageOf(l1 + 512 * k))
        /\ \A x \in Rest : WordAt(t, x) = ZeroEntry

\* C26: for a firmware of n pages, 1 <= n <= 2^20, the table buildRadix3PageTable
\* produces has leaf entry i = pagePhys(i * 4096) | 1 for i < n, L1 entry j
\* pointing at the j-th L2 page for j < ceil(n / 512), root entry k pointing at
\* the k-th L1 page for k < ceil(ceil(n / 512) / 512), each with the valid bit,
\* and zero everywhere else (checked at both ends of every run of 512 entries).
C26_FanOutCoversPages ==
    (TableBuilt /\ FirmwarePages >= 1 /\ FirmwarePages <= 2^20)
        => FanOutCovers(radix3, FirmwarePages)

\* A table for 512 * 512 + 1 scattered pages has been built: two L1 tables.
C26_Witness ==
    /\ TableBuilt
    /\ FirmwarePages = 512 * 512 + 1
    /\ radix3.fw.stride = 3
    /\ WordAt(radix3, 1) = Entry(radix3.phys + 2)


Reverse(s) == [i \in 1..Len(s) |-> s[Len(s) + 1 - i]]

\* An init call on a controller that is not initialised returns false: one of
\* its allocations has failed.
InitFailsOnAlloc == pc = "idle" /\ ~initialized /\ call'.op = "init" /\ ~ret'.b

\* A load or boot call on a controller that is not initialised.
CalledUninitialised ==
    pc = "idle" /\ ~initialized /\ call'.op \in {"loadBooterLoad", "loadVbios", "boot"}

\* C27: when a DMA allocation fails during init, the buffers that init call
\* acquired are released in reverse order of acquisition and initialized stays
\* false; load and boot calls on the controller that is not initialised fail,
\* bootEx with -1.
C27_InitFailureTornDown ==
    [][/\ InitFailsOnAlloc =>
            /\ call'.released = Reverse(call'.acquired)
            /\ \A k \in 1..Len(call'.acquired) : ~mem'[call'.acquired[k]]
            /\ ~initialized'
       /\ CalledUninitialised =>
            /\ pc' = "done"
            /\ ~ret'.b
            /\ ~initialized'
            /\ call'.op = "boot" => ret' = BootResult(-1)]_vars

\* init has failed on its third allocation and released the status queue,
\* then the command queue.
C27_Witness ==
    /\ pc = "done"
    /\ call.op = "init"
    /\ ~ret.b
    /\ call.acquired = <<"cmdQueueMem", "statQueueMem">>
    /\ call.released = <<"statQueueMem", "cmdQueueMem">>
    /\ ~initialized

\* C28: once free() has returned, every buffer allocDmaBuffer has handed out
\* has been released exactly once: none is still held and none was released
\* twice.
C28_ReleasedExactlyOnce ==
    (pc = "done" /\ call.op = "free") =>
        \A i \in 1..Len(dma.bufs) : dma.bufs[i] = "released"


\* C29: whenever fwsecInfo.valid is true the recorded IMEM and DMEM ranges end
\* inside the VBIOS buffer; a descriptor with a range outside the buffer leaves
\* the info invalid.
C29_ValidRangesInside == fwsecInfo.valid => fwsecInfo.rangesOk


\* WPR2_ADDR_HI reads 0.
Wpr2HiZero == ~hw.wpr2En /\ hw.wpr2HiRest = 0

\* A WPR2 check or a FWSEC sequence, of the kernel driver or of the EFI driver,
\* has reported WPR2 configured.
ReportsConfigured ==
    \/ /\ pc = "done"
       /\ call.op \in {"checkWpr2Setup", "GpuIsWpr2Configured", "ExecuteFwsecFrts"}
       /\ ret.b
    \/ call.fwDone /\ call.fwRet

\* C30: while WPR2_ADDR_HI holds 0 no WPR2 check reports WPR2 configured and no
\* FWSEC sequence reports success, whatever WPR2_ADDR_LO holds.
C30_HiZeroNotConfigured == Wpr2HiZero => ~ReportsConfigured

\* The EFI sequence has reached its final check with WPR2_ADDR_HI at 0 and a
\* non-zero WPR2_ADDR_LO, and has failed.
C30_Witness ==
    /\ pc = "done"
    /\ call.op = "ExecuteFwsecFrts"
    /\ Wpr2HiZero
    /\ hw.wpr2Lo # 0
    /\ ~ret.b


\* Frame headers the GSP puts on the status queue: the function id of the
\* message and the elemCount field.
GspFrames == [function : {"GSP_RM_ALLOC", "GSP_INIT_DONE"}, elemCount : {0, 1, 2}]

\* Bytes the GSP moves its head register by for a frame: its elements, one at
\* least.
GspStride(elemCount) == IF elemCount = 0 THEN 4096 ELSE elemCount * 4096

\* The GSP writes a frame at the head of the status queue and advances the
\* head register.
gspWrites(f) ==
    /\ pc = "idle"
    /\ ring.written < MaxMsgs
    /\ ring' = [ring EXCEPT
                    !.mem = StoreFrame(@, ring.statHeadReg, GspStride(f.elemCount),
                                       [seqNum |-> ring.written,
                                        elemCount |-> f.elemCount,
                                        payload |-> [data |-> f.function,
                                                     size |-> GspStride(f.elemCount)
                                                                  - QueueElementHeader]]),
                    !.statHeadReg = (@ + GspStride(f.elemCount)) % QUEUE_SIZE,
                    !.written = @ + 1]
    /\ UNCHANGED <<gspVars, queuePtrs, extVars, hw, traceVars, pc, call, ret>>

\* The loop of waitRpcResponse over the status queue m with head register
\* head, from tail: one dequeueStatus per poll until the function id matches
\* or the polls run out; an empty queue stays empty for the rest of the wait.
RECURSIVE WaitLoop(_, _, _, _, _)
WaitLoop(m, head, tail, function, polls) ==
    IF polls = 0 \/ head = tail
    THEN [found |-> FALSE, tail |-> tail, passed |-> {}]
    ELSE LET f == FrameAt(m, tail)
             next == (tail + f.elemCount * 4096) % QUEUE_SIZE
         IN  IF f.payload.data = function
             THEN [found |-> TRUE, tail |-> next, passed |-> {}]
             ELSE [WaitLoop(m, head, next, function, polls - 1)
                       EXCEPT !.passed = @ \cup {f.payload.data}]

\* waitRpcResponse(function, ...) on the status queue as the GSP left it.
ringWaitRpcResponse(function) ==
    LET w == WaitLoop(ring.mem, ring.statHeadReg, ring.statQueueTail, function,
                      QUEUE_SIZE \div 4096)
    IN  /\ pc = "idle"
        /\ FinishWith([NewCall("waitRpcResponse") EXCEPT !.fn = function, !.seen = w.passed],
                      RetBool(w.found))
        /\ gspReady' = (gspReady \/ "GSP_INIT_DONE" \in w.passed)
        /\ ring' = [ring EXCEPT
                        !.statQueueTail = w.tail,
                        !.statTailReg = w.tail,
                        !.passed = (@ \cup w.passed) \ (IF w.found THEN {function} ELSE {})]
        /\ UNCHANGED <<initialized, mmioBase, mem, dma, booterSize, vbios, fwsecInfo, wprMeta,
                       bootedSinceInit, queuePtrs, extVars, hw, traceVars>>

StatNext ==
    \/ \E f \in GspFrames : gspWrites(f)
    \/ \E maxSize \in MaxSizes : ringDequeue(maxSize)
    \/ \E function \in {"GSP_RM_ALLOC", "GSP_INIT_DONE"} : ringWaitRpcResponse(function)
    \/ return

StatSpec == RingInit /\ [][StatNext]_vars

\* ------------------------------------------------------------- image walks
WalkBlocks == 3

\* What stands at a 512-byte boundary of the image: bytes without the 55 AA
\* signature, a ROM header without a usable PCIR structure (no pointer or a
\* wrong signature), a ROM header whose PCIR structure would end past the
\* buffer, or a ROM header with a PCIR structure: its image length in units of
\* 512 bytes and bit 7 of its indicator.
BlockKinds ==
    [kind : {"data", "noPcir", "pcirOut"}, len : {0}, last : {FALSE}]
        \cup [kind : {"image"}, len : {0, 2}, last : BOOLEAN]

\* The images walked: one block per 512 bytes of the buffer.
WalkImages == [1..WalkBlocks -> BlockKinds]

\* romStart of readVbiosFromBar: the first boundary with a ROM signature, or 0.
RomStart(img) ==
    LET sig == {k \in 1..WalkBlocks : img[k].kind # "data"}
    IN  IF sig = {} THEN 0
        ELSE 512 * ((CHOOSE k \in sig : \A j \in sig : k <= j) - 1)

\* The bound of the loop: size - 2 in parseVbios, maxVbiosSize - 32 in
\* readVbiosFromBar.
WalkLimit(op) == WalkBlocks * 512 - (IF op = "parseVbios" THEN 2 ELSE 32)

\* imageCount++, counted up to the number of blocks.
CountImage(count) == IF count < WalkBlocks THEN count + 1 ELSE count

\* One iteration of the walk on block b at offset: where the next iteration
\* looks, the image count, and whether the loop is left by break.
WalkIteration(op, b, offset, count) ==
    IF b.kind = "image"
    THEN [offset |-> IF op = "parseVbios" THEN offset + b.len * 512
                     ELSE AlignUp(offset + b.len * 512, 512),
          count |-> CountImage(count),
          stop |-> b.last]
    ELSE IF b.kind = "pcirOut" /\ op = "readVbiosFromBar"
    THEN [offset |-> offset, count |-> count, stop |-> TRUE]
    ELSE [offset |-> offset + 512, count |-> count, stop |-> FALSE]

\* parseVbios or readVbiosFromBar reaches its image walk on img; the buffer
\* of readVbiosFromBar has been allocated and filled from the ROM aperture.
imageWalk(op, img) ==
    /\ pc = "idle"
    /\ pc' = "walk"
    /\ call' = [NewCall(op) EXCEPT
                    !.img = img,
                    !.offset = IF op = "parseVbios" THEN 0 ELSE RomStart(img)]
    /\ ret' = RetNone
    /\ mem' = IF op = "parseVbios" THEN mem ELSE [mem EXCEPT !["fwsecMem"] = TRUE]
    /\ UNCHANGED <<initialized, gspReady, mmioBase, dma, booterSize, vbios, fwsecInfo,
                   wprMeta, bootedSinceInit, queueVars, hw, traceVars>>

\* One evaluation of the loop condition and, inside the loop, one iteration.
\* readVbiosFromBar returns imageCount > 0 after the loop; parseVbios goes on
\* to the BIT header.
walkStep ==
    LET n == WalkIteration(call.op, call.img[call.offset \div 512 + 1], call.offset,
                           call.step)
        inside == call.offset < WalkLimit(call.op)
        count == IF inside THEN n.count ELSE call.step
    IN  /\ pc = "walk"
        /\ IF inside /\ ~n.stop
           THEN /\ pc' = "walk"
                /\ call' = [call EXCEPT !.offset = n.offset, !.step = n.count]
                /\ ret' = ret
           ELSE /\ pc' = "done"
                /\ call' = [call EXCEPT !.step = count]
                /\ ret' = IF call.op = "parseVbios" THEN RetNone ELSE RetBool(count > 0)
        /\ UNCHANGED <<gspVars, queueVars, hw, traceVars>>

WalkNext ==
    \/ \E op \in {"parseVbios", "readVbiosFromBar"}, img \in WalkImages : imageWalk(op, img)
    \/ walkStep
    \/ return

WalkSpec == RingInit /\ [][WalkNext]_vars

\* The walk is straight-line code of one thread: a loop that can take its
\* next iteration takes it.
WalkLive == WalkSpec /\ WF_vars(walkStep)

\* updateQueuePointers(): the local command-queue head takes the value of the
\* hardware head register.  (statQueueHead is read again by every
\* dequeueStatus.)
updateQueuePointers ==
    /\ Finish("updateQueuePointers", RetNone)
    /\ cmdQueueHead' = ring.cmdHeadReg
    /\ UNCHANGED <<gspVars, rpcSeqNum, cmdQueueTail, ring, extVars, hw, traceVars>>

\* The GSP consumes the oldest frame of the command queue and moves its head
\* register past it.
gspConsumes ==
    /\ pc = "idle"
    /\ ring.pending # <<>>
    /\ ring' = [ring EXCEPT
                    !.pending = Tail(@),
                    !.cmdHeadReg = (ring.pending[1].offset + ring.pending[1].len)
                                       % QUEUE_SIZE]
    /\ UNCHANGED <<gspVars, queuePtrs, extVars, hw, traceVars, pc, call, ret>>

HeadNext ==
    \/ \E payload \in Payloads : ringEnqueue(payload)
    \/ updateQueuePointers
    \/ gspConsumes
    \/ return

HeadSpec == RingInit /\ [][HeadNext]_vars

\* A PMU table lookup has returned.
PmuLookupDone == pc = "done" /\ call.op \in {"parseVbios", "main"}

\* Neither BIT token has led to a PMU lookup table.
NeitherTokenYields == call.img.tok50 # "hit" /\ call.img.tok70 # "hit"

\* C31: when neither token 0x50 nor token 0x70 yields a PMU lookup table the
\* parser scans from offset 0x9000 for the signature, and it finds a table with
\* a FWSEC entry whenever the image holds one from that offset on.
C31_FallbackScanFinds ==
    (PmuLookupDone /\ NeitherTokenYields) =>
        /\ call.scanned
        /\ (\E t \in call.img.tables : t >= ScanStart) => call.table \in call.img.tables


\* An enqueueCommand call passes its free-space test and stores a frame.
FrameStored == pc = "idle" /\ call'.op = "enqueueCommand" /\ ret'.b

\* C32: every frame enqueueCommand stores, header and payload, lies at
\* offsets inside [0, QUEUE_SIZE) of the command-queue buffer.
C32_FrameInsideBuffer ==
    [][FrameStored =>
          cmdQueueTail + AlignUp(QueueElementHeader + call'.size, 256) <= QUEUE_SIZE]_vars


\* The frames the GSP has not consumed that share a byte with [offset, offset + len).
Unconsumed(offset, len) ==
    {k \in 1..Len(ring.pending) :
        /\ offset < ring.pending[k].offset + ring.pending[k].len
        /\ ring.pending[k].offset < offset + len}

RECURSIVE PendingBytes(_)
PendingBytes(p) == IF p = <<>> THEN 0 ELSE p[1].len + PendingBytes(Tail(p))

\* C33: enqueueCommand stores a frame only into bytes that hold no frame the
\* GSP has yet to consume, and a queue whose every byte is taken by such
\* frames accepts nothing.
C33_NoUnconsumedOverwritten ==
    [][FrameStored =>
          /\ Unconsumed(cmdQueueTail, AlignUp(QueueElementHeader + call'.size, 256)) = {}
          /\ PendingBytes(ring.pending) < QUEUE_SIZE]_vars


\* Every frame enqueueCommand has stored is still whole in the buffer.
FramesIntact ==
    \A k \in 1..Len(ring.pending) :
        /\ ring.pending[k].offset \in DOMAIN ring.mem
        /\ ring.mem[ring.pending[k].offset].seqNum = k - 1

\* C34: after dequeueStatus has taken the n-th frame enqueueCommand stored,
\* its tail is the offset enqueueCommand gave, or will give, the frame that
\* follows: the end of the n-th frame modulo the capacity.
C34_NextFrameOffsetAgreed ==
    (/\ FramesIntact
     /\ Len(ring.rcvd) >= 1
     /\ Len(ring.rcvd) <= Len(ring.pending)) =>
        ring.statQueueTail =
            (ring.pending[Len(ring.rcvd)].offset + ring.pending[Len(ring.rcvd)].len)
                % QUEUE_SIZE


\* dequeueStatus returns true.
FrameDequeued == pc = "idle" /\ call'.op = "dequeueStatus" /\ ret'.b

\* C35: a dequeueStatus that returns true leaves the local status-queue tail
\* at another offset than it found it, whatever elemCount the frame header
\* holds, and copies no more than the elemCount x 4096 - 16 bytes of the frame.
C35_DequeueAdvances ==
    [][FrameDequeued =>
          /\ ring'.statQueueTail # ring.statQueueTail
          /\ ring'.rcvd[Len(ring'.rcvd)].size
                 <= FrameAt(ring.mem, ring.statQueueTail).elemCount * 4096
                        - QueueElementHeader]_vars

\* C36: when waitRpcResponse is called for a function id whose message an
\* earlier call dequeued while it waited for another id, the call finds that
\* message and returns true.
C36_PassedOverStillAvailable ==
    [][(pc = "idle" /\ call'.op = "waitRpcResponse" /\ call'.fn \in ring.passed)
          => ret'.b]_vars


\* C37: every image walk of parseVbios and readVbiosFromBar that has begun
\* comes to its end, whatever the image holds.
C37_WalksTerminate == (pc = "walk") ~> (pc = "done")


\* C38: when executeFwsecFrts goes on to its load strategies, fwsecInfo is the
\* descriptor parseVbios finds in the VBIOS buffer that is loaded now.
C38_DescriptorOfCurrentVbios ==
    pc = "brom" => fwsecInfo = parseVbios(vbios, NoFwsecInfo).info


\* A thread stores the first field of its GPFIFO entry.
StoresEntry(w) ==
    /\ workers[w].at >= 1
    /\ SubmitSteps[workers[w].at] = "address"
    /\ workers'[w].at = workers[w].at + 1

\* C39: submit stores an entry only into a ring boot() has allocated, and only
\* while advancing put does not reach the slot the GPU fetches next.
C39_SubmitNeedsFreeSlot ==
    [][\A w \in Workers :
          StoresEntry(w) =>
              /\ channel.gpfifoRing
              /\ (channel.put + 1) % ringSize # channel.gpGet]_vars


\* The k-th RM message of the run is an rmAlloc, an rmFree.
IsAlloc(k) == ring.sent[k].data[1] = "GSP_RM_ALLOC"
IsFree(k) == ring.sent[k].data[1] = "GSP_RM_FREE"

\* C40: when free() of a channel has returned and every rmFree it called was
\* sent, each handle whose rmAlloc succeeded has been freed by exactly one
\* later rmFree, no rmFree names a handle without a successful rmAlloc, and a
\* handle is freed before the handle it was allocated under.
C40_FreesMatchAllocs ==
    (pc = "done" /\ call.op = "channelFree" /\ ring.unsentFrees = 0) =>
        LET n == Len(ring.sent)
            h(k) == ring.sent[k].data[3]
            parent(k) == ring.sent[k].data[2]
        IN  /\ \A k \in 1..n :
                  IsAlloc(k) =>
                      Cardinality({j \in 1..n : IsFree(j) /\ h(j) = h(k) /\ j > k}) = 1
            /\ \A j \in 1..n :
                  IsFree(j) => \E k \in 1..(j - 1) : IsAlloc(k) /\ h(k) = h(j)
            /\ \A i \in 1..n, j \in 1..n :
                  (IsFree(i) /\ IsFree(j) /\ parent(i) = h(j)) => i < j

====
